---- MODULE Spec2Model ----
(***************************************************************************)
(* A model of @valianx/pubsub-lite: the consumer's per-message pipeline    *)
(* (createConsumer.start, the 'message' listener) with its idempotency     *)
(* store, and the publisher's retry loop (publishWithRetry).               *)
(*                                                                         *)
(* The consumer's listener is an async function: it is cut at the awaits   *)
(* of the store (has, set) and of the user handler, where other deliveries *)
(* interleave. The awaits of the observability hooks are folded into the   *)
(* step they belong to: a hook touches no state of the library.            *)
(* The deliveries modelled fall within the lifetime of the idempotency     *)
(* records they write (6 hours by default): no record expires meanwhile.   *)
(* message.ack() and message.nack() are taken not to throw.                *)
(*                                                                         *)
(* start() and stop() are modelled on their own: stop() is cut at its      *)
(* awaits of subscription.close() and of the store's close(), either of    *)
(* which may reject. The subscription is an EventEmitter: on() adds a      *)
(* listener and close() removes none.                                      *)
(***************************************************************************)
EXTENDS Integers, Sequences, FiniteSets, TLC

(* ----------------------------- bounds --------------------------------- *)

\* deliveries the transport makes to the consumer
MaxDeliveries == 2

Deliveries == 1..MaxDeliveries

\* publish() calls made on the publisher
MaxCalls == 2

Calls == 1..MaxCalls

\* the largest retry.maxAttempts a publisher is configured with
MaxAttemptsOption == 2

\* calculateRetryDelay: the small attempt indexes and delays it is applied to
MaxAttemptIndex == 3

MaxInitialDelayMs == 2

MaxMaxDelayMs == 3

\* start() and stop() calls made on the consumer
MaxLifecycleCalls == 4

LifecycleCalls == 1..MaxLifecycleCalls

\* the clock runs to MaxNow ms, and as far again after a jump of the default lifetime
MaxNow == 3

\* the lifetimes given to set(), in ms
MaxTtl == 2

\* calls made on the Redis store
MaxStoreCalls == 3

StoreCalls == 1..MaxStoreCalls

(* ------------------------- messages and payloads ----------------------- *)

\* the transport's messages: "m1" carries JSON, "m2" carries bytes that are not JSON
Messages == {"m1", "m2"}

\* message.data.toString('utf8')
RawData(m) == IF m = "m1" THEN "{\"n\":1}" ELSE "not json"

\* message.id
MessageId(m) == m

\* the texts JSON.parse accepts
IsJSON(raw) == raw \in {"{\"n\":1}", "1", "null"}

\* JSON.parse(raw), for raw with IsJSON(raw)
JSONParse(raw) ==
    CASE raw = "{\"n\":1}" -> [type |-> "object", text |-> "n:1"]
      [] raw = "1"         -> [type |-> "number", text |-> "1"]
      [] OTHER             -> [type |-> "null", text |-> ""]

\* a parse without the fallback to the raw string
ParsePayloadNoFallback(raw) == JSONParse(raw)

\* the payload handed on: the parsed value, or the raw string when parsing throws
ParsePayload(raw) ==
    IF IsJSON(raw) THEN JSONParse(raw) ELSE [type |-> "string", text |-> raw]

NoData == [type |-> "undefined", text |-> ""]

(* ------------------------------ hooks ---------------------------------- *)

\* what one call of a hook does: it returns, or it throws/rejects. A log entry
\* named after a hook marks the place where the hook, if configured, is called.
HookOutcomes == {"ok", "throws"}

\* what a call of the registered 'error' listener does
ListenerOutcomes == {"ok", "throws"}

\* the seven hooks of the consumer (options.hooks)
ConsumerHooks == {"onMessageReceived", "onIdempotencyCheck", "onMessageStart",
                  "onMessageSuccess", "onMessageError", "onMessageAck", "onMessageNack"}

\* the five hooks of the publisher (options.hooks)
PublisherHooks == {"onPublishStart", "onPublishSuccess", "onPublishError",
                   "onPublishRetry", "onPublishFailure"}

(* ------------------------------ state ---------------------------------- *)

VARIABLES
    idempotencyStore,        \* "undefined", or "store" when idempotencyEnabled
    idempotencyKeySelector,  \* "default" (message.id), or a "throwing" selector
    messageHandler,          \* TRUE when a 'message' handler is registered
    errorHandler,            \* TRUE when an 'error' listener is registered
    store,                   \* the keys the idempotency store holds a record of
    hooks,                   \* per delivery, per hook (and for "errorHandler", the
                             \* 'error' listener): what a call of it may do
    delivery                 \* per delivery: the listener invocation's state

consumerVars == <<idempotencyStore, idempotencyKeySelector, messageHandler,
                  errorHandler, store, hooks, delivery>>

VARIABLES
    retry,                   \* the retry option: whether maxAttempts is given, and its value
    orderingKeySelector,     \* "undefined", "returns" or "throwing"
    attributesDefaults,      \* options.attributesDefaults: given or not, and its value
    publishHooks,            \* per publish() call, per hook: what a call of it may do
    call                     \* per publish() call: the state of publishWithRetry

publisherVars == <<retry, orderingKeySelector, attributesDefaults, publishHooks, call>>

\* the outcomes a call of hook h (or of the 'error' listener) may have in delivery d
MayDo(d, h) == hooks[d][h]

\* the outcomes a call of hook h may have in publish() call c
PublishMayDo(c, h) == publishHooks[c][h]

\* callbacks of which every call may return or throw
AnyOutcome(names) == [h \in names |-> HookOutcomes]

\* callbacks that never throw
NeverThrows(names) == [h \in names |-> {"ok"}]

VARIABLES
    delayArgs,               \* the arguments of a call of calculateRetryDelay
    delayResult              \* the delay it returned

delayVars == <<delayArgs, delayResult>>

VARIABLES
    options,                 \* the consumer's options: idempotencyEnabled, idempotencyStore, redis
    isStarted,               \* the consumer's isStarted flag
    subscription,            \* the subscription: its listeners per event, its close() calls
    storeCloseCalls,         \* close() calls made on the injected store and on a created one
    life                     \* per start()/stop() call: the call's state

lifecycleVars == <<options, isStarted, subscription, storeCloseCalls, life>>

VARIABLES
    now,                     \* Date.now()
    memory,                  \* two InMemoryIdempotencyStore instances: their map and
                             \* cleanupTimer; the sweep of the second never runs
    lastSet,                 \* per key set since the last close(): when, and with what ttl
    lastHas,                 \* the last has() call: its key, its time, what each store returned
    idempotencyTtlMs         \* the consumer's idempotencyTtlMs option

memoryVars == <<now, memory, lastSet, lastHas, idempotencyTtlMs>>

VARIABLES
    redisOptions,            \* the options RedisIdempotencyStore is constructed with
    redisStore,              \* the store's fields: redis, isExternalClient
    connections,             \* per connection: the quit() calls made on it
    cache,                   \* the keys the cache holds
    storeCall                \* per call made on the Redis store: its state

redisVars == <<redisOptions, redisStore, connections, cache, storeCall>>

storeVars == <<memoryVars, redisVars>>

vars == <<consumerVars, publisherVars, delayVars, lifecycleVars, storeVars>>

\* a delivery the transport has not made yet
Idle == [pc |-> "idle", msg |-> "none", data |-> NoData, key |-> "none",
         arg |-> NoData, err |-> "none", after |-> FALSE, log |-> <<>>]

(* ------------------------ the listener's pieces ------------------------ *)

\* a set() that writes nothing
SetKeyDropped(s, k) == s

\* store.set(key): the store holds a live record of key
SetKey(s, k) == s \cup {k}

Emit(r, e) == [r EXCEPT !.log = Append(@, e)]

\* if (hooks?.h) { try { await hooks.h(..) } catch (hookError) { logger.warn(..) } }
CallHook(r, h, o) == Emit(r, h)

\* idempotencyKeySelector(message), for a selector that returns: message.id
KeySelector(sel, m) == MessageId(m)

\* a catch block that nacks before it reports the error
CatchBlockNackFirst(r, err, listener, oErr, oListener, oNack) ==
    LET r1 == CallHook(Emit([r EXCEPT !.err = err], "nack"), "onMessageError", oErr)
        r2 == IF listener THEN Emit(r1, "errorHandler") ELSE r1
    IN  IF listener /\ oListener = "throws"
        THEN [Emit(r2, "unhandledRejection") EXCEPT !.pc = "done"]
        ELSE [CallHook(r2, "onMessageNack", oNack) EXCEPT !.pc = "done"]

\* the catch block of the listener
CatchBlock(r, err, listener, oErr, oListener, oNack) ==
    LET r1 == CallHook([r EXCEPT !.err = err], "onMessageError", oErr)
        r2 == IF listener THEN Emit(r1, "errorHandler") ELSE r1
    IN  IF listener /\ oListener = "throws"
        THEN [Emit(r2, "unhandledRejection") EXCEPT !.pc = "done"]
        ELSE [CallHook(Emit(r2, "nack"), "onMessageNack", oNack) EXCEPT !.pc = "done"]

\* an ack whose onMessageAck hook is not wrapped: its error reaches the catch block
AckAndReturnUnguarded(r, oAck) ==
    IF oAck = "throws"
    THEN CatchBlock(CallHook(Emit(r, "ack"), "onMessageAck", oAck), "hookError",
                    FALSE, "ok", "ok", "ok")
    ELSE [CallHook(Emit(r, "ack"), "onMessageAck", oAck) EXCEPT !.pc = "done"]

\* message.ack(), the onMessageAck hook, return
AckAndReturn(r, oAck) ==
    [CallHook(Emit(r, "ack"), "onMessageAck", oAck) EXCEPT !.pc = "done"]

\* an onMessageStart hook that is not wrapped: its error reaches the catch block
StartHandlingUnguarded(r, handler, oStart, oAck) ==
    LET r1 == CallHook(r, "onMessageStart", oStart)
    IN  IF oStart = "throws"
        THEN CatchBlock(r1, "hookError", FALSE, "ok", "ok", "ok")
        ELSE IF handler
        THEN [Emit(r1, "handler") EXCEPT !.pc = "handler", !.arg = r1.data]
        ELSE AckAndReturn(r1, oAck)

\* a handling step that leaves an unhandled message unacknowledged
StartHandlingWithoutAck(r, handler, oStart, oAck) ==
    LET r1 == CallHook(r, "onMessageStart", oStart)
    IN  IF handler
        THEN [Emit(r1, "handler") EXCEPT !.pc = "handler", !.arg = r1.data]
        ELSE [r1 EXCEPT !.pc = "done"]

\* from the onMessageStart hook to the await of the handler (or the no-handler ack)
StartHandling(r, handler, oStart, oAck) ==
    LET r1 == CallHook(r, "onMessageStart", oStart)
    IN  IF handler
        THEN [Emit(r1, "handler") EXCEPT !.pc = "handler", !.arg = r1.data]
        ELSE AckAndReturn(r1, oAck)

\* an idempotency try without its catch: the store error reaches the catch block
StoreErrorRethrown(r, handler, oStart, oAck) ==
    CatchBlock(r, "storeError", FALSE, oStart, "ok", oAck)

\* the catch of the idempotency try: log, continue processing
StoreErrorPath(r, handler, oStart, oAck) ==
    StartHandling(Emit(r, "logger.error"), handler, oStart, oAck)

\* a check whose answer is not looked at: every delivery goes on to set()
AfterHasIgnored(r, alreadyProcessed, oCheck, oAck) ==
    [Emit(CallHook(r, "onIdempotencyCheck", oCheck), "set") EXCEPT !.pc = "set"]

\* after has() resolved with alreadyProcessed
AfterHas(r, alreadyProcessed, oCheck, oAck) ==
    LET r1 == CallHook(r, "onIdempotencyCheck", oCheck)
    IN  IF alreadyProcessed
        THEN AckAndReturn(r1, oAck)
        ELSE [Emit(r1, "set") EXCEPT !.pc = "set"]

\* a success path that acks the message itself
AfterHandlerAutoAck(r, oSuccess) ==
    AckAndReturn(CallHook(r, "onMessageSuccess", oSuccess), oSuccess)

\* after the handler returned normally
AfterHandler(r, oSuccess) ==
    [CallHook(r, "onMessageSuccess", oSuccess) EXCEPT !.pc = "done"]

(* --------------------------- the publisher ----------------------------- *)

\* the values a publish() call settles with, and the value of an unset lastError
Undefined == [kind |-> "undefined", call |-> 0, n |-> 0]

\* the message id the transport returns for the n-th transport call of call c
MessageIdOf(c, n) == [kind |-> "messageId", call |-> c, n |-> n]

\* the error the n-th attempt of call c raises
ErrorOf(kind, c, n) == [kind |-> kind, call |-> c, n |-> n]

\* const { initialDelayMs = 100, maxDelayMs = 10000, factor = 2, maxAttempts = 5 } = retry
DefaultInitialDelayMs == 100

DefaultMaxDelayMs == 10000

DefaultFactor == 2

DefaultMaxAttempts == 5

\* the retry option: maxAttempts given or left out, and the delays in effect
RetryOption(given, n, initialDelayMs, maxDelayMs, factor) ==
    [given |-> given, maxAttempts |-> n, initialDelayMs |-> initialDelayMs,
     maxDelayMs |-> maxDelayMs, factor |-> factor]

\* a retry option that leaves maxAttempts out and asks for short waits:
\* retry: { initialDelayMs: 1, maxDelayMs: 3 }; the waits are 1, 2, 3, 3, .. ms
\* (a jitter below 1 ms is lost in Math.floor)
NoRetryOption == RetryOption(FALSE, 0, 1, 3, DefaultFactor)

\* the same with maxAttempts: n
ShortWaits(n) == RetryOption(TRUE, n, 1, 3, DefaultFactor)

maxAttempts == IF retry.given THEN retry.maxAttempts ELSE DefaultMaxAttempts

(* ---------------------- the numbers of the backoff --------------------- *)

\* The delays are IEEE-754 doubles. The model keeps the integers it can compute
\* exactly, one value for every number beyond them (finite or not: it only ever
\* meets Math.min with a delay of the model, which it exceeds), Infinity and NaN.
Finite(v) == [kind |-> "finite", v |-> v]

Large == [kind |-> "large", v |-> 0]

Infinity == [kind |-> "Infinity", v |-> 0]

NaN == [kind |-> "NaN", v |-> 0]

\* no delay computed yet
NoDelay == [kind |-> "undefined", v |-> 0]

\* the largest e for which 2 ** e is computed exactly here
ExactExponent == 20

\* the largest e for which 2 ** e is a finite double: 2 ** 1024 is Infinity
MaxExponent == 1023

\* the factors of the model
Factors == {0, 1, 2}

\* factor ** attempt, for a factor of Factors and an attempt >= 0
Power(factor, attempt) ==
    IF attempt = 0 THEN Finite(1)
    ELSE IF factor < 2 THEN Finite(factor)
    ELSE IF attempt <= ExactExponent THEN Finite(2 ^ attempt)
    ELSE IF attempt <= MaxExponent THEN Large
    ELSE Infinity

\* initialDelayMs * x, for an integer initialDelayMs >= 0
Times(initialDelayMs, x) ==
    CASE x.kind = "finite"   -> Finite(initialDelayMs * x.v)
      [] x.kind = "large"    -> IF initialDelayMs = 0 THEN Finite(0) ELSE Large
      [] x.kind = "Infinity" -> IF initialDelayMs = 0 THEN NaN ELSE Infinity
      [] OTHER               -> NaN

\* Math.min(maxDelayMs, x), for an integer maxDelayMs of the model
MathMin(maxDelayMs, x) ==
    CASE x.kind = "finite" -> Finite(IF x.v < maxDelayMs THEN x.v ELSE maxDelayMs)
      [] x.kind = "NaN"    -> NaN
      [] OTHER             -> Finite(maxDelayMs)

\* the values of Math.random() the model draws: random / RandomSteps, in [0, 1)
RandomSteps == 2

Randoms == 0..(RandomSteps - 1)

\* calculateRetryDelay(attempt, initialDelayMs, maxDelayMs, factor), with the value
\* Math.random() returns in it
calculateRetryDelay(attempt, initialDelayMs, maxDelayMs, factor, random) ==
    LET exponentialDelay == MathMin(maxDelayMs, Times(initialDelayMs, Power(factor, attempt)))
        \* Math.floor(exponentialDelay + random / RandomSteps * initialDelayMs)
    IN  IF exponentialDelay.kind = "NaN"
        THEN NaN
        ELSE Finite(exponentialDelay.v + ((random * initialDelayMs) \div RandomSteps))

(* ----------------------------- attributes ----------------------------- *)

\* attribute maps: Record<string, string>, over two keys and two values
AttributeKeys == {"source", "version"}

AttributeValues == {"a", "b"}

AttributeMaps == UNION {[ks -> AttributeValues] : ks \in SUBSET AttributeKeys}

\* {}
EmptyMap == [k \in {} |-> "a"]

\* an option or argument that is left out (undefined)
NotGiven == [given |-> FALSE, value |-> EmptyMap]

\* attributesDefaults, or the attributes argument of publish(): left out, or a map
AttributeOptions == {NotGiven} \cup {[given |-> TRUE, value |-> m] : m \in AttributeMaps}

\* the default of the destructuring and of the parameter: x = {}
OrEmpty(option) == IF option.given THEN option.value ELSE EmptyMap

\* { ...a, ...b }
Spread(a, b) ==
    [k \in DOMAIN a \cup DOMAIN b |-> IF k \in DOMAIN b THEN b[k] ELSE a[k]]

\* a merge in which the defaults win over the call-site attributes
FinalAttributesDefaultsWin(defaults, attributes) == Spread(attributes, defaults)

\* const finalAttributes = { ...attributesDefaults, ...attributes }
FinalAttributes(defaults, attributes) == Spread(defaults, attributes)

(* ------------------------ the retry loop's pieces ---------------------- *)

\* a publish() call not made yet
NoCall == [pc |-> "idle", id |-> 0, data |-> "none", attributes |-> NotGiven,
           attempt |-> 0, calls |-> 0, finalAttributes |-> EmptyMap,
           lastError |-> Undefined, delay |-> NoDelay, result |-> Undefined,
           log |-> <<>>]

\* an entry of the call's log: what happened, at which attempt (1-based)
Mark(p, e) == [p EXCEPT !.log = Append(@, <<e, p.attempt + 1>>)]

\* executeHook(hookFn, context): the hook is called with args (the attempt number
\* first, 0 where the hook gets none); its error is caught and logged
ExecuteHook(p, h, args, o) == [p EXCEPT !.log = Append(@, <<h>> \o args)]

\* a rejection with an error of its own in place of the last attempt's
ExhaustedGenericError(p, o) ==
    [ExecuteHook(p, "onPublishFailure", <<maxAttempts, p.lastError>>, o) EXCEPT
        !.pc = "rejected", !.result = ErrorOf("publishFailed", p.id, 0)]

\* a lastError kept by the publisher and not by the call: the rejection carries
\* the error of whichever call failed, here of the first
ExhaustedSharedLastError(p, o) ==
    [ExecuteHook(p, "onPublishFailure", <<maxAttempts, call[1].lastError>>, o) EXCEPT
        !.pc = "rejected", !.result = call[1].lastError]

\* after the loop: onPublishFailure, throw lastError
Exhausted(p, o) ==
    [ExecuteHook(p, "onPublishFailure", <<maxAttempts, p.lastError>>, o) EXCEPT
        !.pc = "rejected", !.result = p.lastError]

\* a catch that fires onPublishRetry before it looks whether the attempt was the
\* last one
CatchAttemptRetryFirst(p, error, random, oError, oRetry, oFailure) ==
    LET p1 == ExecuteHook([p EXCEPT !.lastError = error],
                          "onPublishError", <<p.attempt + 1, error>>, oError)
        delay == calculateRetryDelay(p.attempt, retry.initialDelayMs,
                                     retry.maxDelayMs, retry.factor, random)
        p2 == ExecuteHook(p1, "onPublishRetry", <<p.attempt + 1, error, delay>>, oRetry)
    IN  IF p.attempt = maxAttempts - 1
        THEN Exhausted(p2, oFailure)
        ELSE [p2 EXCEPT !.pc = "sleep", !.delay = delay]

\* a catch without the break: a backoff wait follows the last attempt too
CatchAttemptAlwaysWaits(p, error, random, oError, oRetry, oFailure) ==
    LET p1 == ExecuteHook([p EXCEPT !.lastError = error],
                          "onPublishError", <<p.attempt + 1, error>>, oError)
        delay == calculateRetryDelay(p.attempt, retry.initialDelayMs,
                                     retry.maxDelayMs, retry.factor, random)
    IN  [ExecuteHook(p1, "onPublishRetry", <<p.attempt + 1, error, delay>>,
                     oRetry) EXCEPT !.pc = "sleep", !.delay = delay]

\* the catch of one attempt: record the error, break after the last attempt,
\* otherwise compute the delay, onPublishRetry and the backoff wait
CatchAttempt(p, error, random, oError, oRetry, oFailure) ==
    LET p1 == ExecuteHook([p EXCEPT !.lastError = error],
                          "onPublishError", <<p.attempt + 1, error>>, oError)
        delay == calculateRetryDelay(p.attempt, retry.initialDelayMs,
                                     retry.maxDelayMs, retry.factor, random)
    IN  IF p.attempt = maxAttempts - 1
        THEN Exhausted(p1, oFailure)
        ELSE [ExecuteHook(p1, "onPublishRetry", <<p.attempt + 1, error, delay>>,
                          oRetry) EXCEPT !.pc = "sleep", !.delay = delay]

\* a loop that gives up on a payload that does not serialize: no retry of it
TryAttemptSerializationFatal(p, random, oError, oRetry, oFailure) ==
    IF ~(p.attempt < maxAttempts)
    THEN Exhausted(p, oFailure)
    ELSE IF p.data = "circular"
    THEN Exhausted([p EXCEPT !.lastError =
                       ErrorOf("serializationError", p.id, p.attempt + 1)], oFailure)
    ELSE IF orderingKeySelector = "throwing"
    THEN CatchAttempt(p, ErrorOf("selectorError", p.id, p.attempt + 1),
                      random, oError, oRetry, oFailure)
    ELSE [p EXCEPT !.pc = "transport", !.calls = @ + 1,
                   !.finalAttributes = FinalAttributes(OrEmpty(attributesDefaults),
                                                       OrEmpty(p.attributes)),
                   !.log = Append(@, <<"publishMessage", p.attempt + 1>>)]

\* one pass of the for loop, from its condition to the await of publishMessage
TryAttempt(p, random, oError, oRetry, oFailure) ==
    IF ~(p.attempt < maxAttempts)
    THEN Exhausted(p, oFailure)
    ELSE IF p.data = "circular"
    THEN CatchAttempt(p, ErrorOf("serializationError", p.id, p.attempt + 1),
                      random, oError, oRetry, oFailure)
    ELSE IF orderingKeySelector = "throwing"
    THEN CatchAttempt(p, ErrorOf("selectorError", p.id, p.attempt + 1),
                      random, oError, oRetry, oFailure)
    ELSE [p EXCEPT !.pc = "transport", !.calls = @ + 1,
                   !.finalAttributes = FinalAttributes(OrEmpty(attributesDefaults),
                                                       OrEmpty(p.attributes)),
                   !.log = Append(@, <<"publishMessage", p.attempt + 1>>)]

\* a success that is not returned: the loop goes on to its next pass
PublishedNoReturn(p, messageId, o) ==
    TryAttempt([ExecuteHook(p, "onPublishSuccess", <<0, messageId>>, o) EXCEPT
                   !.attempt = @ + 1, !.result = messageId], 0, o, o, o)

\* an onPublishSuccess hook that is not wrapped: its error lands in the catch of
\* the attempt
PublishedHookUnguarded(p, messageId, o) ==
    IF o = "throws"
    THEN CatchAttempt(ExecuteHook(p, "onPublishSuccess", <<0, messageId>>, o),
                      ErrorOf("hookError", p.id, p.attempt + 1), 0, "ok", "ok", "ok")
    ELSE [ExecuteHook(p, "onPublishSuccess", <<0, messageId>>, o) EXCEPT
             !.pc = "resolved", !.result = messageId]

\* publishMessage resolved: onPublishSuccess, return messageId
Published(p, messageId, o) ==
    [ExecuteHook(p, "onPublishSuccess", <<0, messageId>>, o) EXCEPT
        !.pc = "resolved", !.result = messageId]

(* ------------------------ the in-memory store -------------------------- *)

\* the keys given to the stores
Keys == {"k1", "k2"}

\* the store instances: the sweep of the first runs, that of the second never does
Stores == {1, 2}

\* 6 * 60 * 60 * 1000: the default lifetime of a record, in ms
DefaultTtlMs == 21600000

\* the ttl argument of set(): omitted, or a number of ms
NoTtl == [given |-> FALSE, value |-> 0]

Ttls == {NoTtl} \cup {[given |-> TRUE, value |-> t] : t \in 0..MaxTtl}

\* an empty Map
EmptyStore == [k \in {} |-> 0]

\* new InMemoryIdempotencyStore(): an empty map, the sweep timer set
NewMemoryStore == [store |-> EmptyStore, cleanupTimer |-> TRUE]

\* Map.delete(key)
MapDelete(map, keys) == [k \in DOMAIN map \ keys |-> map[k]]

\* Map.set(key, value)
MapSet(map, key, value) ==
    [k \in DOMAIN map \cup {key} |-> IF k = key THEN value ELSE map[k]]

\* has() that does not look at the expiry
MemoryHasNoExpiry(m, key, time) ==
    [m |-> m, result |-> key \in DOMAIN m.store]

\* has(key) at Date.now() = time: the store it leaves and the value it resolves with
MemoryHas(m, key, time) ==
    IF key \notin DOMAIN m.store THEN [m |-> m, result |-> FALSE]
    ELSE IF time > m.store[key]
         THEN [m |-> [m EXCEPT !.store = MapDelete(@, {key})], result |-> FALSE]
         ELSE [m |-> m, result |-> TRUE]

\* set(key, ttl) at Date.now() = time
MemorySet(m, key, ttl, time) ==
    LET expiry == time + (IF ttl.given THEN ttl.value ELSE DefaultTtlMs)
    IN  [m EXCEPT !.store = MapSet(@, key, expiry)]

\* close(): the timer is cleared if set, the map is cleared
MemoryClose(m) == [store |-> EmptyStore, cleanupTimer |-> FALSE]

\* a sweep that deletes the entries whose expiry is reached
MemoryCleanupAtExpiry(m, time) ==
    [m EXCEPT !.store = MapDelete(@, {k \in DOMAIN @ : time >= @[k]})]

\* the setInterval callback of startCleanup at Date.now() = time
MemoryCleanup(m, time) ==
    [m EXCEPT !.store = MapDelete(@, {k \in DOMAIN @ : time > @[k]})]

\* no has() call made yet
NoHas == [key |-> "none", at |-> 0, results |-> [s \in Stores |-> FALSE]]

\* the in-memory stores are not used
QuietMemory ==
    /\ now = 0
    /\ memory = [s \in Stores |-> NewMemoryStore]
    /\ lastSet = EmptyStore
    /\ lastHas = NoHas
    /\ idempotencyTtlMs = NoTtl

(* --------------------------- the Redis store --------------------------- *)

\* options.client: not given, an ioredis instance, or a client of another library
RedisClients == {"undefined", "ioredis", "node-redis"}

\* the options of RedisIdempotencyStore that the model follows
RedisOptions == [client : RedisClients, ttl : {NoTtl, [given |-> TRUE, value |-> MaxTtl]}]

\* options.keyPrefix ?? 'pubsubx:idemp:'
keyPrefix == "pubsubx:idemp:"

\* this.keyPrefix + key
FullKey(key) == <<keyPrefix, key>>

\* new RedisIdempotencyStore(o): the connection it uses and whether it is the
\* caller's; for a client that is not ioredis createRedisAdapter throws, and no
\* store is constructed
RedisConstructor(o) ==
    IF o.client = "undefined"
    THEN [constructed |-> TRUE, redis |-> "created", isExternalClient |-> FALSE]
    ELSE IF o.client = "ioredis"
    THEN [constructed |-> TRUE, redis |-> "client", isExternalClient |-> TRUE]
    ELSE [constructed |-> FALSE, redis |-> "undefined", isExternalClient |-> TRUE]

\* the connections: the one the store creates and the one the caller supplies
Connections == {"created", "client"}

\* a connection on which quit() was not called
NewConnection == [quitCalls |-> 0, ended |-> FALSE]

\* ttl ?? this.ttl, with this.ttl = options.ttl ?? 6 hours
FinalTtl(ttl, o) ==
    IF ttl.given THEN ttl.value
    ELSE IF o.ttl.given THEN o.ttl.value
    ELSE DefaultTtlMs

\* a call on the Redis store that has not been made
NoStoreCall == [op |-> "none", key |-> "none", ttl |-> 0, pc |-> "none",
                failed |-> FALSE, result |-> FALSE]

\* has() that lets the failure of the cache call through
HasFailureRethrown(p) == [p EXCEPT !.pc = "rejected", !.failed = TRUE]

\* has(): the catch of the cache call's failure: return false
HasFailure(p) == [p EXCEPT !.pc = "resolved", !.failed = TRUE, !.result = FALSE]

\* set(): the catch of the cache call's failure: log, return
SetFailure(p) == [p EXCEPT !.pc = "resolved", !.failed = TRUE]

\* close() that quits the connection whoever owns it
RedisCloseQuitsAll(r) == TRUE

\* close(): whether quit() is called on this.redis
RedisCloseQuits(r) == ~r.isExternalClient

\* the Redis store is not used
QuietRedis ==
    /\ redisOptions = [client |-> "undefined", ttl |-> NoTtl]
    /\ redisStore = RedisConstructor(redisOptions)
    /\ connections = [x \in Connections |-> NewConnection]
    /\ cache = EmptyStore
    /\ storeCall = [c \in StoreCalls |-> NoStoreCall]

\* no store is used on its own
QuietStores == QuietMemory /\ QuietRedis

(* --------------------------- the lifecycle ----------------------------- *)

\* the events of the subscription the consumer listens to
SubscriptionEvents == {"message", "error"}

\* the options of createConsumer that choose the idempotency store
ConsumerOptions ==
    [idempotencyEnabled : BOOLEAN,
     idempotencyStore : {"undefined", "injected"},
     redis : BOOLEAN]

\* a selection that does not look at idempotencyEnabled
SelectStoreUngated(o) ==
    IF o.idempotencyStore # "undefined" THEN "injected"
    ELSE IF o.redis THEN "redis"
    ELSE "memory"

\* the store createConsumer keeps: none, the injected one, or one it creates
SelectStore(o) ==
    IF ~o.idempotencyEnabled THEN "undefined"
    ELSE IF o.idempotencyStore # "undefined" THEN "injected"
    ELSE IF o.redis THEN "redis"
    ELSE "memory"

\* options under which createConsumer keeps the given idempotencyStore value
OptionsFor(s) ==
    [idempotencyEnabled |-> s # "undefined", idempotencyStore |-> "undefined",
     redis |-> s # "undefined"]

\* the subscription as client.subscription() returns it
NewSubscription ==
    [listeners |-> [e \in SubscriptionEvents |-> 0], closeCalls |-> 0]

\* subscription.on(event, listener): one more listener of the event
SubscriptionOn(sub, event) == [sub EXCEPT !.listeners[event] = @ + 1]

\* subscription.close(): the call is made; the listeners stay attached
SubscriptionClose(sub) == [sub EXCEPT !.closeCalls = @ + 1]

\* no close() call made on any store
NoStoreCloseCalls == [injected |-> 0, created |-> 0]

\* idempotencyStore.close(), on the store createConsumer kept
StoreClose(calls, o) ==
    IF SelectStore(o) = "injected" THEN [calls EXCEPT !.injected = @ + 1]
    ELSE [calls EXCEPT !.created = @ + 1]

\* a start() or stop() call that has not been made
NoLifecycleCall == [op |-> "none", pc |-> "none", was |-> FALSE, settled |-> {}]

\* start() that attaches its listeners whatever isStarted is
startUnguarded(started, sub) ==
    [isStarted |-> TRUE,
     subscription |-> SubscriptionOn(SubscriptionOn(sub, "message"), "error")]

\* start(): the new isStarted and the subscription it leaves
start(started, sub) ==
    IF started THEN [isStarted |-> started, subscription |-> sub]
    ELSE [isStarted |-> TRUE,
          subscription |-> SubscriptionOn(SubscriptionOn(sub, "message"), "error")]

\* stop() that closes whatever isStarted is
stopUnguarded(started, sub) ==
    [isStarted |-> FALSE, subscription |-> SubscriptionClose(sub),
     pc |-> "subscription.close"]

\* stop() up to its first await: the new isStarted, the subscription, and where
\* the call stands
stop(started, sub) ==
    IF ~started THEN [isStarted |-> started, subscription |-> sub, pc |-> "resolved"]
    ELSE [isStarted |-> FALSE, subscription |-> SubscriptionClose(sub),
          pc |-> "subscription.close"]

\* a consumer on which start() was called once, and nothing else
StartedOnce ==
    /\ options = OptionsFor(idempotencyStore)
    /\ isStarted = TRUE
    /\ subscription = start(FALSE, NewSubscription).subscription
    /\ storeCloseCalls = NoStoreCloseCalls
    /\ life = [i \in LifecycleCalls |-> NoLifecycleCall]

\* a consumer that is never started
NeverStarted ==
    /\ options = OptionsFor(idempotencyStore)
    /\ isStarted = FALSE
    /\ subscription = NewSubscription
    /\ storeCloseCalls = NoStoreCloseCalls
    /\ life = [i \in LifecycleCalls |-> NoLifecycleCall]

(* ------------------------------- Init ---------------------------------- *)

\* the consumer as constructed; no delivery made yet
ConsumerInit ==
    /\ idempotencyStore \in {"undefined", "store"}
    /\ idempotencyKeySelector \in {"default", "throwing"}
    /\ messageHandler = FALSE
    /\ errorHandler = FALSE
    /\ store = {}
    /\ hooks = [d \in Deliveries |-> AnyOutcome(ConsumerHooks \cup {"errorHandler"})]
    /\ delivery = [d \in Deliveries |-> Idle]
    /\ StartedOnce

\* calculateRetryDelay on its own: not called
QuietDelay ==
    /\ delayArgs = [attempt |-> 0, initialDelayMs |-> 0, maxDelayMs |-> 0,
                    factor |-> 0, random |-> 0]
    /\ delayResult = NoDelay

\* a publisher that is not used
QuietPublisher ==
    /\ retry = NoRetryOption /\ orderingKeySelector = "undefined"
    /\ attributesDefaults = NotGiven
    /\ publishHooks = [c \in Calls |-> AnyOutcome(PublisherHooks)]
    /\ call = [c \in Calls |-> NoCall]

\* a consumer that receives nothing
QuietConsumer ==
    /\ idempotencyStore = "undefined" /\ idempotencyKeySelector = "default"
    /\ messageHandler = FALSE /\ errorHandler = FALSE
    /\ store = {}
    /\ hooks = [d \in Deliveries |-> AnyOutcome(ConsumerHooks \cup {"errorHandler"})]
    /\ delivery = [d \in Deliveries |-> Idle]
    /\ NeverStarted

\* the publisher as constructed; no publish() call made yet
PublisherInit ==
    /\ retry \in {NoRetryOption}
                    \cup {ShortWaits(n) : n \in 0..MaxAttemptsOption}
    /\ orderingKeySelector \in {"undefined", "returns", "throwing"}
    /\ attributesDefaults = NotGiven
    /\ publishHooks = [c \in Calls |-> AnyOutcome(PublisherHooks)]
    /\ call = [c \in Calls |-> NoCall]

\* a process that only consumes
Init ==
    /\ ConsumerInit
    /\ QuietPublisher
    /\ QuietDelay
    /\ QuietStores

\* a process that only publishes
PubInit ==
    /\ PublisherInit
    /\ QuietConsumer
    /\ QuietDelay
    /\ QuietStores

(* ----------------------------- actions --------------------------------- *)

\* consumer.on('message', handler) / consumer.on('error', handler)
On(event) ==
    /\ \/ event = "message" /\ ~messageHandler /\ messageHandler' = TRUE
          /\ UNCHANGED errorHandler
       \/ event = "error" /\ ~errorHandler /\ errorHandler' = TRUE
          /\ UNCHANGED messageHandler
    /\ UNCHANGED <<publisherVars, delayVars, lifecycleVars, storeVars>>
    /\ UNCHANGED <<idempotencyStore, idempotencyKeySelector, store, hooks, delivery>>

\* the transport emits 'message': the listener runs to its first await of the
\* store or of the handler
OnMessage(d, m) ==
    /\ delivery[d].pc = "idle"
    /\ d > 1 => delivery[d - 1].pc # "idle"
    /\ delivery' \in
          {LET r0 == [Idle EXCEPT !.msg = m,
                        !.after = \A e \in Deliveries : delivery[e].pc \in {"idle", "done"}]
               r1 == CallHook(r0, "onMessageReceived", o[1])
               r2 == [r1 EXCEPT !.data = ParsePayload(RawData(m))]
           IN  [delivery EXCEPT ![d] =
                  IF idempotencyStore = "undefined"
                  THEN StartHandling(r2, messageHandler, o[2], o[3])
                  ELSE IF idempotencyKeySelector = "throwing"
                  THEN CatchBlock(r2, "selectorError", errorHandler, o[2], o[4], o[3])
                  ELSE [Emit([r2 EXCEPT !.key = KeySelector(idempotencyKeySelector, m)],
                             "has") EXCEPT !.pc = "has"]] :
              o \in IF idempotencyStore = "undefined"
                    THEN MayDo(d, "onMessageReceived") \X MayDo(d, "onMessageStart")
                            \X MayDo(d, "onMessageAck") \X {"ok"}
                    ELSE IF idempotencyKeySelector = "throwing"
                    THEN MayDo(d, "onMessageReceived") \X MayDo(d, "onMessageError")
                            \X MayDo(d, "onMessageNack") \X MayDo(d, "errorHandler")
                    ELSE MayDo(d, "onMessageReceived") \X {"ok"} \X {"ok"} \X {"ok"}}
    /\ UNCHANGED <<publisherVars, delayVars, lifecycleVars, storeVars>>
    /\ UNCHANGED <<idempotencyStore, idempotencyKeySelector, messageHandler,
                   errorHandler, store, hooks>>

\* idempotencyStore.has(key) resolves: the store answers from its live records
HasResolves(d) ==
    /\ delivery[d].pc = "has"
    /\ delivery' \in
          {[delivery EXCEPT ![d] =
              LET alreadyProcessed == delivery[d].key \in store
              IN  AfterHas(Emit(delivery[d], IF alreadyProcessed THEN "has:true"
                                             ELSE "has:false"),
                           alreadyProcessed, oCheck, oAck)] :
              oCheck \in MayDo(d, "onIdempotencyCheck"), oAck \in MayDo(d, "onMessageAck")}
    /\ UNCHANGED <<publisherVars, delayVars, lifecycleVars, storeVars>>
    /\ UNCHANGED <<idempotencyStore, idempotencyKeySelector, messageHandler,
                   errorHandler, store, hooks>>

\* idempotencyStore.has(key) throws or rejects
HasRejects(d) ==
    /\ delivery[d].pc = "has"
    /\ delivery' \in
          {[delivery EXCEPT ![d] =
              StoreErrorPath(Emit(delivery[d], "has:error"), messageHandler, oStart, oAck)] :
              oStart \in MayDo(d, "onMessageStart"), oAck \in MayDo(d, "onMessageAck")}
    /\ UNCHANGED <<publisherVars, delayVars, lifecycleVars, storeVars>>
    /\ UNCHANGED <<idempotencyStore, idempotencyKeySelector, messageHandler,
                   errorHandler, store, hooks>>

\* idempotencyStore.set(key) resolves: the record is written
SetResolves(d) ==
    /\ delivery[d].pc = "set"
    /\ store' = SetKey(store, delivery[d].key)
    /\ delivery' \in
          {[delivery EXCEPT ![d] =
              StartHandling(delivery[d], messageHandler, oStart, oAck)] :
              oStart \in MayDo(d, "onMessageStart"), oAck \in MayDo(d, "onMessageAck")}
    /\ UNCHANGED <<publisherVars, delayVars, lifecycleVars, storeVars>>
    /\ UNCHANGED <<idempotencyStore, idempotencyKeySelector, messageHandler,
                   errorHandler, hooks>>

\* idempotencyStore.set(key) throws or rejects; the write may or may not have
\* reached the store
SetRejects(d) ==
    /\ delivery[d].pc = "set"
    /\ \E written \in BOOLEAN :
          store' = IF written THEN SetKey(store, delivery[d].key) ELSE store
    /\ delivery' \in
          {[delivery EXCEPT ![d] =
              StoreErrorPath(Emit(delivery[d], "set:error"), messageHandler, oStart, oAck)] :
              oStart \in MayDo(d, "onMessageStart"), oAck \in MayDo(d, "onMessageAck")}
    /\ UNCHANGED <<publisherVars, delayVars, lifecycleVars, storeVars>>
    /\ UNCHANGED <<idempotencyStore, idempotencyKeySelector, messageHandler,
                   errorHandler, hooks>>

\* the user handler returns normally, having called message.ack() itself or not
HandlerReturns(d) ==
    /\ delivery[d].pc = "handler"
    /\ delivery' \in
          {[delivery EXCEPT ![d] =
              AfterHandler(Emit(IF acks THEN Emit(delivery[d], "handler.ack")
                                ELSE delivery[d], "handler.returned"), oSuccess)] :
              acks \in BOOLEAN, oSuccess \in MayDo(d, "onMessageSuccess")}
    /\ UNCHANGED <<publisherVars, delayVars, lifecycleVars, storeVars>>
    /\ UNCHANGED <<idempotencyStore, idempotencyKeySelector, messageHandler,
                   errorHandler, store, hooks>>

\* the user handler throws or rejects
HandlerThrows(d) ==
    /\ delivery[d].pc = "handler"
    /\ delivery' \in
          {[delivery EXCEPT ![d] =
              CatchBlock(Emit(delivery[d], "handler.threw"), "handlerError",
                         errorHandler, oErr, oListener, oNack)] :
              oErr \in MayDo(d, "onMessageError"), oNack \in MayDo(d, "onMessageNack"),
              oListener \in MayDo(d, "errorHandler")}
    /\ UNCHANGED <<publisherVars, delayVars, lifecycleVars, storeVars>>
    /\ UNCHANGED <<idempotencyStore, idempotencyKeySelector, messageHandler,
                   errorHandler, store, hooks>>

Next ==
    \/ \E event \in {"message", "error"} : On(event)
    \/ \E d \in Deliveries, m \in Messages : OnMessage(d, m)
    \/ \E d \in Deliveries : HasResolves(d)
    \/ \E d \in Deliveries : HasRejects(d)
    \/ \E d \in Deliveries : SetResolves(d)
    \/ \E d \in Deliveries : SetRejects(d)
    \/ \E d \in Deliveries : HandlerReturns(d)
    \/ \E d \in Deliveries : HandlerThrows(d)

Spec == Init /\ [][Next]_vars

(* ---------------- one delivery, with and without throwing hooks -------- *)

\* the delivery whose hooks throw, and its reference run in which no hook throws
Pair == {1, 2}

\* a consumer with handlers registered or not, a store that may hold a record
\* already, hooks of which a given subset throws during delivery 1 and none during
\* the other deliveries, and an 'error' listener that does the same in all
HookInit ==
    /\ idempotencyStore \in {"undefined", "store"}
    /\ idempotencyKeySelector \in {"default", "throwing"}
    /\ messageHandler \in BOOLEAN
    /\ errorHandler \in BOOLEAN
    /\ store \in {{}, {"m1"}}
    /\ \E throwing \in SUBSET ConsumerHooks :
       \E listener \in IF errorHandler THEN ListenerOutcomes ELSE {"ok"} :
          hooks = [d \in Deliveries |->
                     [h \in ConsumerHooks \cup {"errorHandler"} |->
                        IF h = "errorHandler" THEN {listener}
                        ELSE IF d = 1 /\ h \in throwing THEN {"throws"} ELSE {"ok"}]]
    /\ delivery = [d \in Deliveries |-> Idle]
    /\ StartedOnce
    /\ QuietPublisher
    /\ QuietDelay
    /\ QuietStores

\* the transport delivers a message, and the same message once more
HookNext ==
    \/ \E m \in Messages : OnMessage(1, m)
    \/ OnMessage(2, delivery[1].msg)
    \/ \E d \in Pair : HasResolves(d)
    \/ \E d \in Pair : HasRejects(d)
    \/ \E d \in Pair : SetResolves(d)
    \/ \E d \in Pair : SetRejects(d)
    \/ \E d \in Pair : HandlerReturns(d)
    \/ \E d \in Pair : HandlerThrows(d)

HookSpec == HookInit /\ [][HookNext]_vars

(* ------------------------- publisher actions --------------------------- *)

\* publisher.publish(data, attributes): onPublishStart, then the first pass of
\* the loop
Publish(c, data, attributes) ==
    /\ call[c].pc = "idle"
    /\ c > 1 => call[c - 1].pc # "idle"
    /\ call' \in
          {[call EXCEPT ![c] =
              TryAttempt(ExecuteHook([NoCall EXCEPT !.id = c, !.data = data,
                                                    !.attributes = attributes],
                                     "onPublishStart", <<0>>, oStart),
                         random, oError, oRetry, oFailure)] :
              random \in Randoms,
              oStart \in PublishMayDo(c, "onPublishStart"),
              oError \in PublishMayDo(c, "onPublishError"),
              oRetry \in PublishMayDo(c, "onPublishRetry"),
              oFailure \in PublishMayDo(c, "onPublishFailure")}
    /\ UNCHANGED <<retry, orderingKeySelector, attributesDefaults, publishHooks>>
    /\ UNCHANGED <<consumerVars, delayVars, lifecycleVars, storeVars>>

\* topic.publishMessage(..) resolves with a message id
PublishMessageResolves(c) ==
    /\ call[c].pc = "transport"
    /\ \E o \in PublishMayDo(c, "onPublishSuccess") :
          call' = [call EXCEPT ![c] =
              Published(Mark(call[c], "publishMessage.resolved"),
                        MessageIdOf(c, call[c].calls), o)]
    /\ UNCHANGED <<retry, orderingKeySelector, attributesDefaults, publishHooks>>
    /\ UNCHANGED <<consumerVars, delayVars, lifecycleVars, storeVars>>

\* topic.publishMessage(..) throws or rejects
PublishMessageRejects(c) ==
    /\ call[c].pc = "transport"
    /\ call' \in
          {[call EXCEPT ![c] =
              CatchAttempt(Mark(call[c], "publishMessage.rejected"),
                           ErrorOf("transportError", c, call[c].attempt + 1),
                           random, oError, oRetry, oFailure)] :
              random \in Randoms,
              oError \in PublishMayDo(c, "onPublishError"),
              oRetry \in PublishMayDo(c, "onPublishRetry"),
              oFailure \in PublishMayDo(c, "onPublishFailure")}
    /\ UNCHANGED <<retry, orderingKeySelector, attributesDefaults, publishHooks>>
    /\ UNCHANGED <<consumerVars, delayVars, lifecycleVars, storeVars>>

\* the backoff wait is over: attempt++, the next pass of the loop
SleepElapses(c) ==
    /\ call[c].pc = "sleep"
    /\ call' \in
          {[call EXCEPT ![c] =
              TryAttempt([Mark(call[c], "sleep") EXCEPT !.attempt = @ + 1],
                         random, oError, oRetry, oFailure)] :
              random \in Randoms,
              oError \in PublishMayDo(c, "onPublishError"),
              oRetry \in PublishMayDo(c, "onPublishRetry"),
              oFailure \in PublishMayDo(c, "onPublishFailure")}
    /\ UNCHANGED <<retry, orderingKeySelector, attributesDefaults, publishHooks>>
    /\ UNCHANGED <<consumerVars, delayVars, lifecycleVars, storeVars>>

PubNext ==
    \/ \E c \in Calls, data \in {"json", "circular"} : Publish(c, data, NotGiven)
    \/ \E c \in Calls : PublishMessageResolves(c)
    \/ \E c \in Calls : PublishMessageRejects(c)
    \/ \E c \in Calls : SleepElapses(c)

PubSpec == PubInit /\ [][PubNext]_vars

\* the publisher when every transport call returns and every backoff wait ends:
\* the promise of publishMessage settles and the timer of sleep() fires
PubFairSpec ==
    /\ PubInit
    /\ [][PubNext]_vars
    /\ \A c \in Calls :
          /\ WF_vars(PublishMessageResolves(c) \/ PublishMessageRejects(c))
          /\ WF_vars(SleepElapses(c))

(* ------------------------ publish() with attributes ------------------- *)

\* two publish() calls on one publisher
CallPair == {1, 2}

\* a publisher with attributesDefaults given or not
AttributeInit ==
    /\ retry = ShortWaits(2)
    /\ orderingKeySelector = "undefined"
    /\ attributesDefaults \in AttributeOptions
    /\ publishHooks = [c \in Calls |-> AnyOutcome(PublisherHooks)]
    /\ call = [c \in Calls |-> NoCall]
    /\ QuietConsumer
    /\ QuietDelay
    /\ QuietStores

\* publish(data) and publish(data, attributes)
AttributeNext ==
    \/ \E c \in CallPair, attributes \in AttributeOptions : Publish(c, "json", attributes)
    \/ \E c \in CallPair : PublishMessageResolves(c)
    \/ \E c \in CallPair : PublishMessageRejects(c)
    \/ \E c \in CallPair : SleepElapses(c)

AttributeSpec == AttributeInit /\ [][AttributeNext]_vars

(* ----------------------- calculateRetryDelay alone --------------------- *)

\* the attempt indexes: the first ones, and those around which 2 ** attempt leaves
\* the integers computed exactly and the finite doubles
AttemptIndexes ==
    (0..MaxAttemptIndex)
        \cup {ExactExponent, ExactExponent + 1, MaxExponent, MaxExponent + 1}

\* the arguments: non-negative delays, small ones and the defaults
DelayInit ==
    /\ delayArgs \in [attempt : AttemptIndexes,
                       initialDelayMs : (0..MaxInitialDelayMs) \cup {DefaultInitialDelayMs},
                       maxDelayMs : (0..MaxMaxDelayMs) \cup {DefaultMaxDelayMs},
                       factor : Factors,
                       random : Randoms]
    /\ delayResult = NoDelay
    /\ QuietConsumer
    /\ QuietPublisher
    /\ QuietStores

\* const delay = calculateRetryDelay(attempt, initialDelayMs, maxDelayMs, factor)
CalculateRetryDelay ==
    /\ delayResult = NoDelay
    /\ delayResult' = calculateRetryDelay(delayArgs.attempt, delayArgs.initialDelayMs,
                                          delayArgs.maxDelayMs, delayArgs.factor,
                                          delayArgs.random)
    /\ UNCHANGED <<delayArgs, consumerVars, publisherVars, lifecycleVars, storeVars>>

DelayNext == CalculateRetryDelay

DelaySpec == DelayInit /\ [][DelayNext]_vars

(* -------------- one publish() call, with and without throwing hooks ---- *)

\* a publisher with hooks of which a given subset throws during call 1 and none
\* during the other calls
PublishHookInit ==
    /\ retry \in {NoRetryOption}
                    \cup {ShortWaits(n) : n \in 0..MaxAttemptsOption}
    /\ orderingKeySelector \in {"undefined", "returns", "throwing"}
    /\ attributesDefaults = NotGiven
    /\ \E throwing \in SUBSET PublisherHooks :
          publishHooks = [c \in Calls |->
                            [h \in PublisherHooks |->
                               IF c = 1 /\ h \in throwing THEN {"throws"} ELSE {"ok"}]]
    /\ call = [c \in Calls |-> NoCall]
    /\ QuietConsumer
    /\ QuietDelay
    /\ QuietStores

\* publish(data), and publish() of the same data once more
PublishHookNext ==
    \/ \E data \in {"json", "circular"} : Publish(1, data, NotGiven)
    \/ Publish(2, call[1].data, NotGiven)
    \/ \E c \in CallPair : PublishMessageResolves(c)
    \/ \E c \in CallPair : PublishMessageRejects(c)
    \/ \E c \in CallPair : SleepElapses(c)

PublishHookSpec == PublishHookInit /\ [][PublishHookNext]_vars


(* ------------------------- start() and stop() -------------------------- *)

\* a consumer as createConsumer returns it, with any choice of store options
LifeInit ==
    /\ options \in ConsumerOptions
    /\ idempotencyStore = IF SelectStore(options) = "undefined" THEN "undefined"
                          ELSE "store"
    /\ idempotencyKeySelector = "default"
    /\ messageHandler = FALSE /\ errorHandler = FALSE
    /\ store = {}
    /\ hooks = [d \in Deliveries |-> AnyOutcome(ConsumerHooks \cup {"errorHandler"})]
    /\ delivery = [d \in Deliveries |-> Idle]
    /\ isStarted = FALSE
    /\ subscription = NewSubscription
    /\ storeCloseCalls = NoStoreCloseCalls
    /\ life = [i \in LifecycleCalls |-> NoLifecycleCall]
    /\ QuietPublisher
    /\ QuietDelay
    /\ QuietStores

\* the lifecycle calls that have returned, resolved or rejected
SettledCalls ==
    {k \in LifecycleCalls : life[k].pc \in {"returned", "resolved", "rejected"}}

\* i is the next lifecycle call to be made
NextCall(i) ==
    /\ life[i].op = "none"
    /\ \A k \in LifecycleCalls : k < i => life[k].op # "none"

\* consumer.start()
Start(i) ==
    /\ NextCall(i)
    /\ LET s == start(isStarted, subscription)
       IN  /\ isStarted' = s.isStarted
           /\ subscription' = s.subscription
    /\ life' = [life EXCEPT ![i] = [op |-> "start", pc |-> "returned",
                                    was |-> isStarted, settled |-> SettledCalls]]
    /\ UNCHANGED <<options, storeCloseCalls>>
    /\ UNCHANGED <<consumerVars, publisherVars, delayVars, storeVars>>

\* consumer.stop(), up to its await of subscription.close()
Stop(i) ==
    /\ NextCall(i)
    /\ LET s == stop(isStarted, subscription)
       IN  /\ isStarted' = s.isStarted
           /\ subscription' = s.subscription
           /\ life' = [life EXCEPT ![i] = [op |-> "stop", pc |-> s.pc,
                                           was |-> isStarted, settled |-> SettledCalls]]
    /\ UNCHANGED <<options, storeCloseCalls>>
    /\ UNCHANGED <<consumerVars, publisherVars, delayVars, storeVars>>

\* subscription.close() resolves: stop() closes the store it kept, if any
SubscriptionCloseResolves(i) ==
    /\ life[i].pc = "subscription.close"
    /\ IF idempotencyStore # "undefined"
       THEN /\ storeCloseCalls' = StoreClose(storeCloseCalls, options)
            /\ life' = [life EXCEPT ![i].pc = "idempotencyStore.close"]
       ELSE /\ life' = [life EXCEPT ![i].pc = "resolved"]
            /\ UNCHANGED storeCloseCalls
    /\ UNCHANGED <<options, isStarted, subscription>>
    /\ UNCHANGED <<consumerVars, publisherVars, delayVars, storeVars>>

\* subscription.close() rejects: stop() rejects
SubscriptionCloseRejects(i) ==
    /\ life[i].pc = "subscription.close"
    /\ life' = [life EXCEPT ![i].pc = "rejected"]
    /\ UNCHANGED <<options, isStarted, subscription, storeCloseCalls>>
    /\ UNCHANGED <<consumerVars, publisherVars, delayVars, storeVars>>

\* idempotencyStore.close() resolves: stop() resolves
StoreCloseResolves(i) ==
    /\ life[i].pc = "idempotencyStore.close"
    /\ life' = [life EXCEPT ![i].pc = "resolved"]
    /\ UNCHANGED <<options, isStarted, subscription, storeCloseCalls>>
    /\ UNCHANGED <<consumerVars, publisherVars, delayVars, storeVars>>

\* idempotencyStore.close() rejects: stop() rejects
StoreCloseRejects(i) ==
    /\ life[i].pc = "idempotencyStore.close"
    /\ life' = [life EXCEPT ![i].pc = "rejected"]
    /\ UNCHANGED <<options, isStarted, subscription, storeCloseCalls>>
    /\ UNCHANGED <<consumerVars, publisherVars, delayVars, storeVars>>

LifeNext ==
    \/ \E i \in LifecycleCalls : Start(i)
    \/ \E i \in LifecycleCalls : Stop(i)
    \/ \E i \in LifecycleCalls : SubscriptionCloseResolves(i)
    \/ \E i \in LifecycleCalls : SubscriptionCloseRejects(i)
    \/ \E i \in LifecycleCalls : StoreCloseResolves(i)
    \/ \E i \in LifecycleCalls : StoreCloseRejects(i)

LifeSpec == LifeInit /\ [][LifeNext]_vars

(* ------------------ deliveries under every store option ---------------- *)

\* the value of idempotencyStore that createConsumer is left with
StoreVariable(o) == IF SelectStore(o) = "undefined" THEN "undefined" ELSE "store"

\* a started consumer constructed with any store options, with or without a
\* 'message' handler; the store given or created may hold a record already
GateInit ==
    /\ options \in ConsumerOptions
    /\ idempotencyStore = StoreVariable(options)
    /\ idempotencyKeySelector \in {"default", "throwing"}
    /\ messageHandler \in BOOLEAN
    /\ errorHandler = FALSE
    /\ store \in {{}, {"m1"}}
    /\ hooks = [d \in Deliveries |-> AnyOutcome(ConsumerHooks \cup {"errorHandler"})]
    /\ delivery = [d \in Deliveries |-> Idle]
    /\ isStarted = TRUE
    /\ subscription = start(FALSE, NewSubscription).subscription
    /\ storeCloseCalls = NoStoreCloseCalls
    /\ life = [i \in LifecycleCalls |-> NoLifecycleCall]
    /\ QuietPublisher
    /\ QuietDelay
    /\ QuietStores

\* the transport makes two deliveries, of the same message or not
GateNext ==
    \/ \E d \in Pair, m \in Messages : OnMessage(d, m)
    \/ \E d \in Pair : HasResolves(d)
    \/ \E d \in Pair : HasRejects(d)
    \/ \E d \in Pair : SetResolves(d)
    \/ \E d \in Pair : SetRejects(d)
    \/ \E d \in Pair : HandlerReturns(d)
    \/ \E d \in Pair : HandlerThrows(d)

GateSpec == GateInit /\ [][GateNext]_vars

(* ---------------------- the in-memory store's calls -------------------- *)

\* two stores just constructed, at time 0
MemoryInit ==
    /\ QuietMemory
    /\ QuietRedis
    /\ QuietConsumer
    /\ QuietPublisher
    /\ QuietDelay

\* the values Date.now() takes: the first ms, and those a default lifetime later
ClockValues == (0..MaxNow) \cup (DefaultTtlMs..(DefaultTtlMs + MaxNow))

\* time passes: a ms, or the default lifetime
Advance(d) ==
    /\ now + d \in ClockValues
    /\ now' = now + d
    /\ lastHas' = NoHas
    /\ UNCHANGED <<memory, lastSet, idempotencyTtlMs>>
    /\ UNCHANGED <<consumerVars, publisherVars, delayVars, lifecycleVars, redisVars>>

\* has(key), called on both stores
MemHas(key) ==
    /\ memory' = [s \in Stores |-> MemoryHas(memory[s], key, now).m]
    /\ lastHas' = [key |-> key, at |-> now,
                   results |-> [s \in Stores |-> MemoryHas(memory[s], key, now).result]]
    /\ UNCHANGED <<now, lastSet, idempotencyTtlMs>>
    /\ UNCHANGED <<consumerVars, publisherVars, delayVars, lifecycleVars, redisVars>>

\* set(key, ttl), called on both stores
MemSet(key, ttl) ==
    /\ memory' = [s \in Stores |-> MemorySet(memory[s], key, ttl, now)]
    /\ lastSet' = MapSet(lastSet, key, [at |-> now, ttl |-> ttl])
    /\ lastHas' = NoHas
    /\ UNCHANGED <<now, idempotencyTtlMs>>
    /\ UNCHANGED <<consumerVars, publisherVars, delayVars, lifecycleVars, redisVars>>

\* close(), called on both stores
MemClose ==
    /\ memory' = [s \in Stores |-> MemoryClose(memory[s])]
    /\ lastSet' = EmptyStore
    /\ lastHas' = NoHas
    /\ UNCHANGED <<now, idempotencyTtlMs>>
    /\ UNCHANGED <<consumerVars, publisherVars, delayVars, lifecycleVars, redisVars>>

\* the sweep timer of the first store fires
Sweep ==
    /\ memory[1].cleanupTimer
    /\ memory' = [memory EXCEPT ![1] = MemoryCleanup(@, now)]
    /\ lastHas' = NoHas
    /\ UNCHANGED <<now, lastSet, idempotencyTtlMs>>
    /\ UNCHANGED <<consumerVars, publisherVars, delayVars, lifecycleVars, redisVars>>

MemoryNext ==
    \/ \E d \in {1, DefaultTtlMs} : Advance(d)
    \/ \E key \in Keys : MemHas(key)
    \/ \E key \in Keys, ttl \in Ttls : MemSet(key, ttl)
    \/ MemClose
    \/ Sweep

MemorySpec == MemoryInit /\ [][MemoryNext]_vars

(* ------------------ the pipeline on the in-memory store ---------------- *)

\* the arguments of the pipeline's idempotencyStore.set(idempotencyKey): no ttl
PipelineTtl(option) == NoTtl

\* a started consumer with idempotencyEnabled and neither a store nor redis
\* options, hence the in-memory store, and with or without idempotencyTtlMs
TtlInit ==
    /\ idempotencyTtlMs \in Ttls
    /\ now = 0
    /\ memory = [s \in Stores |-> NewMemoryStore]
    /\ lastSet = EmptyStore
    /\ lastHas = NoHas
    /\ options = [idempotencyEnabled |-> TRUE, idempotencyStore |-> "undefined",
                  redis |-> FALSE]
    /\ idempotencyStore = StoreVariable(options)
    /\ idempotencyKeySelector = "default"
    /\ messageHandler = FALSE /\ errorHandler = FALSE
    /\ store = {}
    /\ hooks = [d \in Deliveries |-> AnyOutcome(ConsumerHooks \cup {"errorHandler"})]
    /\ delivery = [d \in Deliveries |-> Idle]
    /\ isStarted = TRUE
    /\ subscription = start(FALSE, NewSubscription).subscription
    /\ storeCloseCalls = NoStoreCloseCalls
    /\ life = [i \in LifecycleCalls |-> NoLifecycleCall]
    /\ QuietRedis
    /\ QuietPublisher
    /\ QuietDelay

\* a delivery with idempotency key `key` goes through the idempotency step:
\* alreadyProcessed = await has(key); if it is false, await set(key)
CheckAndMark(key) ==
    LET alreadyProcessed == [s \in Stores |-> MemoryHas(memory[s], key, now).result]
        checked == [s \in Stores |-> MemoryHas(memory[s], key, now).m]
    IN  /\ lastHas' = [key |-> key, at |-> now, results |-> alreadyProcessed]
        /\ memory' = [s \in Stores |->
                        IF alreadyProcessed[s] THEN checked[s]
                        ELSE MemorySet(checked[s], key,
                                       PipelineTtl(idempotencyTtlMs), now)]
        /\ lastSet' = IF alreadyProcessed[1] THEN lastSet
                      ELSE MapSet(lastSet, key,
                                  [at |-> now, ttl |-> PipelineTtl(idempotencyTtlMs)])
        /\ UNCHANGED <<now, idempotencyTtlMs>>
        /\ UNCHANGED <<consumerVars, publisherVars, delayVars, lifecycleVars, redisVars>>

TtlNext ==
    \/ \E d \in {1, DefaultTtlMs} : Advance(d)
    \/ \E key \in Keys : CheckAndMark(key)
    \/ Sweep

TtlSpec == TtlInit /\ [][TtlNext]_vars

(* ------------------------ the Redis store's calls ---------------------- *)

\* a store constructed with any client option and with or without a ttl option
RedisInit ==
    /\ redisOptions \in RedisOptions
    /\ redisStore = RedisConstructor(redisOptions)
    /\ connections = [x \in Connections |-> NewConnection]
    /\ cache = EmptyStore
    /\ storeCall = [c \in StoreCalls |-> NoStoreCall]
    /\ QuietMemory
    /\ QuietConsumer
    /\ QuietPublisher
    /\ QuietDelay

\* c is the next call to be made on the store, which was constructed
NextStoreCall(c) ==
    /\ redisStore.constructed
    /\ storeCall[c].op = "none"
    /\ \A b \in StoreCalls : b < c => storeCall[b].op # "none"

\* store.has(key), up to await this.redis.exists(fullKey)
RedisHas(c, key) ==
    /\ NextStoreCall(c)
    /\ storeCall' = [storeCall EXCEPT ![c] =
                        [NoStoreCall EXCEPT !.op = "has", !.key = FullKey(key),
                                            !.pc = "redis.exists"]]
    /\ UNCHANGED <<redisOptions, redisStore, connections, cache>>
    /\ UNCHANGED <<consumerVars, publisherVars, delayVars, lifecycleVars, memoryVars>>

\* exists resolves with the number of keys found: has() returns result === 1
ExistsResolves(c) ==
    /\ storeCall[c].pc = "redis.exists"
    /\ ~connections[redisStore.redis].ended
    /\ storeCall' = [storeCall EXCEPT ![c].pc = "resolved",
                                      ![c].result = (storeCall[c].key \in DOMAIN cache)]
    /\ UNCHANGED <<redisOptions, redisStore, connections, cache>>
    /\ UNCHANGED <<consumerVars, publisherVars, delayVars, lifecycleVars, memoryVars>>

\* exists throws or rejects
ExistsRejects(c) ==
    /\ storeCall[c].pc = "redis.exists"
    /\ storeCall' = [storeCall EXCEPT ![c] = HasFailure(storeCall[c])]
    /\ UNCHANGED <<redisOptions, redisStore, connections, cache>>
    /\ UNCHANGED <<consumerVars, publisherVars, delayVars, lifecycleVars, memoryVars>>

\* store.set(key, ttl), up to await this.redis.psetex(fullKey, finalTtl, '1')
RedisSet(c, key, ttl) ==
    /\ NextStoreCall(c)
    /\ storeCall' = [storeCall EXCEPT ![c] =
                        [NoStoreCall EXCEPT !.op = "set", !.key = FullKey(key),
                                            !.ttl = FinalTtl(ttl, redisOptions),
                                            !.pc = "redis.psetex"]]
    /\ UNCHANGED <<redisOptions, redisStore, connections, cache>>
    /\ UNCHANGED <<consumerVars, publisherVars, delayVars, lifecycleVars, memoryVars>>

\* psetex resolves: the cache holds the key for finalTtl ms
PsetexResolves(c) ==
    /\ storeCall[c].pc = "redis.psetex"
    /\ ~connections[redisStore.redis].ended
    /\ cache' = MapSet(cache, storeCall[c].key, storeCall[c].ttl)
    /\ storeCall' = [storeCall EXCEPT ![c].pc = "resolved"]
    /\ UNCHANGED <<redisOptions, redisStore, connections>>
    /\ UNCHANGED <<consumerVars, publisherVars, delayVars, lifecycleVars, memoryVars>>

\* psetex throws or rejects
PsetexRejects(c) ==
    /\ storeCall[c].pc = "redis.psetex"
    /\ storeCall' = [storeCall EXCEPT ![c] = SetFailure(storeCall[c])]
    /\ UNCHANGED <<redisOptions, redisStore, connections, cache>>
    /\ UNCHANGED <<consumerVars, publisherVars, delayVars, lifecycleVars, memoryVars>>

\* store.close(), up to await this.redis.quit()
RedisClose(c) ==
    /\ NextStoreCall(c)
    /\ IF RedisCloseQuits(redisStore)
       THEN /\ connections' = [connections EXCEPT ![redisStore.redis].quitCalls = @ + 1]
            /\ storeCall' = [storeCall EXCEPT ![c] =
                                [NoStoreCall EXCEPT !.op = "close", !.pc = "redis.quit"]]
       ELSE /\ storeCall' = [storeCall EXCEPT ![c] =
                                [NoStoreCall EXCEPT !.op = "close", !.pc = "resolved"]]
            /\ UNCHANGED connections
    /\ UNCHANGED <<redisOptions, redisStore, cache>>
    /\ UNCHANGED <<consumerVars, publisherVars, delayVars, lifecycleVars, memoryVars>>

\* quit resolves: the connection is ended, close() resolves
QuitResolves(c) ==
    /\ storeCall[c].pc = "redis.quit"
    /\ ~connections[redisStore.redis].ended
    /\ connections' = [connections EXCEPT ![redisStore.redis].ended = TRUE]
    /\ storeCall' = [storeCall EXCEPT ![c].pc = "resolved"]
    /\ UNCHANGED <<redisOptions, redisStore, cache>>
    /\ UNCHANGED <<consumerVars, publisherVars, delayVars, lifecycleVars, memoryVars>>

\* quit rejects, as it does on a connection that is ended: close() rejects
QuitRejects(c) ==
    /\ storeCall[c].pc = "redis.quit"
    /\ storeCall' = [storeCall EXCEPT ![c].pc = "rejected", ![c].failed = TRUE]
    /\ UNCHANGED <<redisOptions, redisStore, connections, cache>>
    /\ UNCHANGED <<consumerVars, publisherVars, delayVars, lifecycleVars, memoryVars>>

RedisNext ==
    \/ \E c \in StoreCalls, key \in Keys : RedisHas(c, key)
    \/ \E c \in StoreCalls : ExistsResolves(c)
    \/ \E c \in StoreCalls : ExistsRejects(c)
    \/ \E c \in StoreCalls, key \in Keys, ttl \in {NoTtl, [given |-> TRUE, value |-> 1]} :
          RedisSet(c, key, ttl)
    \/ \E c \in StoreCalls : PsetexResolves(c)
    \/ \E c \in StoreCalls : PsetexRejects(c)
    \/ \E c \in StoreCalls : RedisClose(c)
    \/ \E c \in StoreCalls : QuitResolves(c)
    \/ \E c \in StoreCalls : QuitRejects(c)

RedisSpec == RedisInit /\ [][RedisNext]_vars

(* ----------------------- reading a delivery's log ---------------------- *)

Has(r, e) == \E i \in DOMAIN r.log : r.log[i] = e

Count(r, e) == Cardinality({i \in DOMAIN r.log : r.log[i] = e})

\* some e is followed, later in the log, by some f
Before(r, e, f) == \E i, j \in DOMAIN r.log : i < j /\ r.log[i] = e /\ r.log[j] = f

Done(d) == delivery[d].pc = "done"

\* a store call of the delivery threw or rejected
StoreFailed(r) == Has(r, "has:error") \/ Has(r, "set:error")

\* d and e are the only two deliveries of their message, e made after d's pipeline
\* (and every other) had finished
DeliveredTwice(d, e) ==
    /\ d < e
    /\ Done(d) /\ Done(e)
    /\ delivery[e].after
    /\ delivery[d].msg = delivery[e].msg
    /\ \A f \in Deliveries \ {d, e} : delivery[f].msg # delivery[d].msg

(* ------------------------------ claims --------------------------------- *)

\* C1: with idempotency enabled, a delivery whose has(key) answered true never
\* reaches the handler; the pipeline calls ack() on it once, never nack(), and the
\* onMessageAck hook comes after the ack.
C1_DuplicateIsAckedUnhandled ==
    \A d \in Deliveries :
        Has(delivery[d], "has:true") =>
            /\ Done(d)
            /\ ~Has(delivery[d], "handler")
            /\ Count(delivery[d], "ack") = 1
            /\ ~Has(delivery[d], "nack")
            /\ Before(delivery[d], "ack", "onMessageAck")
            /\ ~Before(delivery[d], "onMessageAck", "ack")

C1_Witness ==
    \E d \in Deliveries : Has(delivery[d], "has:true") /\ Done(d)

\* C2: within the lifetime of a key's record and with no store call failing, the
\* handler is invoked for at most one of the deliveries that map to the key,
\* however their pipelines interleave.
C2_HandlerAtMostOncePerKey ==
    \A k \in Messages :
        (/\ idempotencyStore = "store"
         /\ \A d \in Deliveries : delivery[d].key = k => ~StoreFailed(delivery[d]))
        => Cardinality({d \in Deliveries :
                           delivery[d].key = k /\ Has(delivery[d], "handler")}) <= 1

\* the case of C3 in which the key selector returns, the store answers and keeps
\* its record
C3_Case(d, e) ==
    /\ idempotencyStore = "store"
    /\ idempotencyKeySelector = "default"
    /\ DeliveredTwice(d, e)
    /\ ~StoreFailed(delivery[d]) /\ ~StoreFailed(delivery[e])

C4_RedeliveryReachesHandler ==
    \A d, e \in Deliveries :
        (/\ idempotencyStore = "store"
         /\ DeliveredTwice(d, e)
         /\ Has(delivery[d], "handler.threw") /\ Has(delivery[d], "nack"))
        => Has(delivery[e], "handler") /\ ~Has(delivery[e], "ack")

\* C5: when has() or set() threw for a delivery, the pipeline goes on as after
\* has() = false: onMessageStart, then the handler with the parsed payload (or the
\* no-handler ack); the store error reaches neither the catch block nor a nack.
C5_StoreErrorFailsOpen ==
    \A d \in Deliveries :
        StoreFailed(delivery[d]) =>
            /\ Has(delivery[d], "logger.error")
            /\ Has(delivery[d], "onMessageStart")
            /\ Has(delivery[d], "handler") \/ Has(delivery[d], "ack")
            /\ Has(delivery[d], "handler") =>
                  delivery[d].arg = ParsePayload(RawData(delivery[d].msg))
            /\ delivery[d].err \in {"none", "handlerError"}
            /\ Has(delivery[d], "nack") => Has(delivery[d], "handler.threw")

C5_Witness ==
    \E d, e \in Deliveries :
        /\ Has(delivery[d], "has:error") /\ Has(delivery[d], "handler") /\ Done(d)
        /\ Has(delivery[e], "set:error") /\ Has(delivery[e], "handler") /\ Done(e)

\* C6: whenever the handler threw, the pipeline has called nack() exactly once and
\* ack() never by the time the listener is finished.
C6_HandlerErrorIsNacked ==
    \A d \in Deliveries :
        (Has(delivery[d], "handler.threw") /\ Done(d)) =>
            Count(delivery[d], "nack") = 1 /\ ~Has(delivery[d], "ack")

C8_AtMostOneAckOrNack ==
    \A d \in Deliveries :
        Count(delivery[d], "ack") + Count(delivery[d], "nack") <= 1

C8_Witness ==
    \E d, e \in Deliveries :
        /\ Done(d) /\ Count(delivery[d], "ack") = 1
        /\ Done(e) /\ Count(delivery[e], "nack") = 1

(* ------------------------- publisher claims ---------------------------- *)

\* the entries e of the log of call c
Entries(c, e) == {i \in DOMAIN call[c].log : call[c].log[i][1] = e}

Settled(c) == call[c].pc \in {"resolved", "rejected"}

\* C9: a publish() call makes at most maxAttempts transport calls; a call that
\* rejected after transport calls (all of which failed, then) made exactly
\* maxAttempts of them, 5 when maxAttempts is not configured, and rejected with the
\* error of the last attempt.
C9_RetryBound ==
    \A c \in Calls :
        /\ call[c].calls <= maxAttempts
        /\ Cardinality(Entries(c, "publishMessage")) = call[c].calls
        /\ (call[c].pc = "rejected" /\ call[c].calls >= 1) =>
              /\ Entries(c, "publishMessage.resolved") = {}
              /\ call[c].calls = maxAttempts
              /\ ~retry.given => call[c].calls = 5
              /\ call[c].result = ErrorOf("transportError", c, maxAttempts)

C9_Witness ==
    \E c \in Calls :
        call[c].pc = "rejected" /\ call[c].calls >= 2 /\ call[c].calls = maxAttempts

\* C10: once a transport call of a publish() call succeeded, after k failed ones,
\* the call has resolved with the id that transport call returned and has made
\* exactly k + 1 transport calls; a call that has resolved or rejected makes no
\* further transport call.
C10_ResolvesWithFirstSuccess ==
    /\ [](\A c \in Calls :
            Entries(c, "publishMessage.resolved") # {} =>
                /\ call[c].pc = "resolved"
                /\ call[c].result = MessageIdOf(c, call[c].calls)
                /\ call[c].calls = Cardinality(Entries(c, "publishMessage.rejected")) + 1
                /\ call[c].calls <= maxAttempts)
    /\ [][\A c \in Calls : Settled(c) => call'[c] = call[c]]_vars

C10_Witness ==
    \E c, b \in Calls :
        /\ call[c].pc = "resolved" /\ call[c].calls = 3
        /\ b # c /\ Settled(b) /\ call[b].calls = 1

\* C11: when orderingKeySelector throws for a payload that serializes, and at least
\* one attempt is allowed, the publish() call rejects at once with the selector's
\* error: it makes no transport call and no second attempt, fires no onPublishRetry
\* and waits for no backoff.
C11_SelectorErrorPropagates ==
    \A c \in Calls :
        (/\ orderingKeySelector = "throwing"
         /\ maxAttempts >= 1
         /\ call[c].data = "json")
        => /\ call[c].pc = "rejected"
           /\ call[c].result = ErrorOf("selectorError", c, 1)
           /\ call[c].calls = 0
           /\ call[c].attempt = 0
           /\ Entries(c, "onPublishRetry") = {}

\* the error an attempt of call c raises when the selector does not throw
KindOf(c) == IF call[c].data = "circular" THEN "serializationError" ELSE "transportError"

\* C12: an error of the transport call and an error of JSON.stringify are treated
\* alike: each failed attempt counts against maxAttempts and, unless it was the
\* last one allowed, is followed by a backoff wait and a new attempt; the call
\* rejects after exactly maxAttempts failed attempts and maxAttempts - 1 waits, with
\* the error of the last attempt; for a payload that does not serialize no
\* transport call is ever made.
C12_ErrorsAreRetriedAlike ==
    \A c \in Calls :
        LET p == call[c]
            errors == Cardinality(Entries(c, "onPublishError"))
            waits  == Cardinality(Entries(c, "onPublishRetry"))
        IN  (orderingKeySelector # "throwing" /\ maxAttempts >= 1) =>
               /\ p.data = "circular" => p.calls = 0 /\ p.pc \in {"sleep", "rejected"}
               /\ p.pc = "transport" => errors = p.attempt /\ waits = p.attempt
               /\ p.pc = "sleep" =>
                     /\ errors = p.attempt + 1 /\ waits = errors
                     /\ errors < maxAttempts
                     /\ p.lastError = ErrorOf(KindOf(c), c, errors)
               /\ p.pc = "rejected" =>
                     /\ errors = maxAttempts /\ waits = maxAttempts - 1
                     /\ p.attempt = maxAttempts - 1
                     /\ p.result = ErrorOf(KindOf(c), c, maxAttempts)

C12_Witness ==
    \E c, b \in Calls :
        /\ maxAttempts = 2
        /\ call[c].data = "circular" /\ call[c].pc = "rejected"
        /\ Cardinality(Entries(c, "onPublishRetry")) = 1 /\ call[c].calls = 0
        /\ call[b].data = "json" /\ call[b].pc = "rejected"
        /\ Cardinality(Entries(b, "onPublishRetry")) = 1 /\ call[b].calls = 2

(* ----------------------- isolation of the hooks ------------------------ *)

\* what the environment answers during a delivery: the store's answers, the
\* handler's result and its own ack
InputEvents == {"has:true", "has:false", "has:error", "set:error",
                "handler.ack", "handler.returned", "handler.threw"}

\* what the pipeline does during a delivery
ObservableEvents == {"has", "set", "handler", "ack", "nack", "logger.error",
                     "errorHandler", "unhandledRejection"}

Inputs(r) == SelectSeq(r.log, LAMBDA e : e \in InputEvents)

\* the observable outcome of a delivery: the store calls, the handler invocation
\* and its payload, ack()/nack(), the error reported
Outcome(r) == [events |-> SelectSeq(r.log, LAMBDA e : e \in ObservableEvents),
               arg |-> r.arg, err |-> r.err]

\* no hook throws during delivery e
NoHookThrows(e) == \A h \in ConsumerHooks : hooks[e][h] = {"ok"}

\* d and e are finished deliveries of the same message to which the store, the
\* handler and the 'error' listener answered the same
SameDelivery(d, e) ==
    /\ Done(d) /\ Done(e)
    /\ delivery[d].msg = delivery[e].msg
    /\ Inputs(delivery[d]) = Inputs(delivery[e])
    /\ hooks[d]["errorHandler"] = hooks[e]["errorHandler"]

\* C13: whichever of the seven hooks throw during a delivery, its observable
\* outcome (store calls, handler invocation and payload, ack or nack) is that of
\* the same delivery with no hook throwing.
C13_HooksAreIsolated ==
    \A d, e \in Deliveries :
        (SameDelivery(d, e) /\ NoHookThrows(e)) =>
            Outcome(delivery[d]) = Outcome(delivery[e])

\* a delivery whose handler threw and was nacked, with every hook called on the
\* way throwing, next to its reference run
C13_Witness ==
    \E d, e \in Deliveries :
        /\ SameDelivery(d, e) /\ NoHookThrows(e)
        /\ \A h \in {"onMessageReceived", "onIdempotencyCheck", "onMessageStart",
                      "onMessageError", "onMessageNack"} :
               hooks[d][h] = {"throws"} /\ Has(delivery[d], h)
        /\ Has(delivery[d], "handler.threw") /\ Has(delivery[d], "nack")

\* what the transport answered to the transport calls of a publish() call
PublishInputs(p) ==
    SelectSeq(p.log, LAMBDA e : e[1] \in {"publishMessage.resolved",
                                          "publishMessage.rejected"})

\* how a publish() call settled: resolved or rejected, with the id of which
\* transport call or the error of which attempt, after how many transport calls
Settlement(p) == [pc |-> p.pc, kind |-> p.result.kind, n |-> p.result.n,
                  calls |-> p.calls]

NoPublishHookThrows(b) == \A h \in PublisherHooks : publishHooks[b][h] = {"ok"}

\* c and b are settled calls with the same payload to which the transport
\* answered the same
SameCall(c, b) ==
    /\ Settled(c) /\ Settled(b)
    /\ call[c].data = call[b].data
    /\ PublishInputs(call[c]) = PublishInputs(call[b])

\* C14: whichever of the five publisher hooks throw during a publish() call, the
\* value it resolves with or the error it rejects with, and the number of its
\* transport calls, are those of the same call with no hook throwing.
C14_PublishHooksAreIsolated ==
    \A c, b \in Calls :
        (SameCall(c, b) /\ NoPublishHookThrows(b)) =>
            Settlement(call[c]) = Settlement(call[b])

\* a call that resolved at its second attempt with every hook called on the way
\* throwing, next to its reference call
C14_Witness ==
    \E c, b \in Calls :
        /\ SameCall(c, b) /\ NoPublishHookThrows(b)
        /\ \A h \in {"onPublishStart", "onPublishError", "onPublishRetry",
                      "onPublishSuccess"} :
               publishHooks[c][h] = {"throws"} /\ Entries(c, h) # {}
        /\ call[c].pc = "resolved" /\ call[c].calls = 2

(* -------------------------- publisher hooks ---------------------------- *)

\* entry i of log is a call of hook h
IsCall(log, i, h) == i \in DOMAIN log /\ log[i][1] = h

\* the delays calculateRetryDelay may return after the failure of attempt n (1-based)
DelaysAfter(n) ==
    {calculateRetryDelay(n - 1, retry.initialDelayMs, retry.maxDelayMs, retry.factor,
                         random) : random \in Randoms}

\* C15: in a publish() call onPublishStart fires once, first; onPublishError fires
\* once after each failed attempt, with the attempt's error and 1-based number;
\* onPublishRetry fires only after the onPublishError of an attempt that is not the
\* last one, with the computed delay, and before the wait of that delay, on which
\* the next attempt follows; a settled call has fired exactly one of
\* onPublishSuccess (with the message id it resolves with) and onPublishFailure
\* (with the last error and maxAttempts), once, as its last hook, and a call that
\* is not settled has fired neither.
C15_HookPattern ==
    \A c \in Calls :
        LET p == call[c]
            log == p.log
            last == Len(log)
            finals == Entries(c, "onPublishSuccess") \cup Entries(c, "onPublishFailure")
        IN  p.pc # "idle" =>
              /\ IsCall(log, 1, "onPublishStart")
              /\ Cardinality(Entries(c, "onPublishStart")) = 1
              /\ \A i \in DOMAIN log :
                    /\ IsCall(log, i, "publishMessage.rejected") =>
                          /\ IsCall(log, i + 1, "onPublishError")
                          /\ log[i + 1][2] = log[i][2]
                          /\ log[i + 1][3] = ErrorOf("transportError", c, log[i][2])
                    /\ IsCall(log, i, "onPublishError") =>
                          /\ log[i][2] = Cardinality({j \in 1..i :
                                                        IsCall(log, j, "onPublishError")})
                          /\ log[i][3].n = log[i][2]
                          /\ IF log[i][2] = maxAttempts
                             THEN IsCall(log, i + 1, "onPublishFailure")
                             ELSE IsCall(log, i + 1, "onPublishRetry")
                    /\ IsCall(log, i, "onPublishRetry") =>
                          /\ IsCall(log, i - 1, "onPublishError")
                          /\ log[i][2] = log[i - 1][2] /\ log[i][3] = log[i - 1][3]
                          /\ log[i][2] < maxAttempts
                          /\ log[i][4] \in DelaysAfter(log[i][2])
                          /\ IF i = last
                             THEN p.pc = "sleep" /\ p.delay = log[i][4]
                             ELSE /\ IsCall(log, i + 1, "sleep")
                                  /\ log[i + 1][2] = log[i][2]
                    /\ IsCall(log, i, "sleep") =>
                          /\ IsCall(log, i - 1, "onPublishRetry")
                          /\ i < last /\ log[i + 1][2] = log[i][2] + 1
                          /\ log[i + 1][1] \in {"publishMessage", "onPublishError"}
              /\ IF Settled(c) THEN finals = {last} ELSE finals = {}
              /\ p.pc = "resolved" =>
                    /\ IsCall(log, last, "onPublishSuccess")
                    /\ log[last][3] = p.result /\ p.result.kind = "messageId"
              /\ p.pc = "rejected" =>
                    /\ IsCall(log, last, "onPublishFailure")
                    /\ log[last][2] = maxAttempts
                    /\ log[last][3] = p.lastError /\ p.result = p.lastError

\* one call rejected after two failed attempts and one wait, another resolved at
\* its second attempt
C15_Witness ==
    \E c, b \in Calls :
        /\ maxAttempts = 2
        /\ call[c].pc = "rejected" /\ call[c].calls = 2
        /\ Cardinality(Entries(c, "onPublishRetry")) = 1
        /\ call[b].pc = "resolved" /\ call[b].calls = 2
        /\ Cardinality(Entries(b, "onPublishRetry")) = 1

(* ----------------------------- attributes ------------------------------ *)

\* C17: the attributes of the message a publish() call hands to the transport
\* hold every key of attributesDefaults and of the call-site attributes and no
\* other; a key of the call-site attributes has the call-site value, any other key
\* its default; with neither map given they are the empty map.
C17_AttributePrecedence ==
    \A c \in Calls :
        call[c].calls >= 1 =>
            LET defaults == OrEmpty(attributesDefaults)
                callSite == OrEmpty(call[c].attributes)
                final    == call[c].finalAttributes
            IN  /\ DOMAIN final = DOMAIN defaults \cup DOMAIN callSite
                /\ \A k \in DOMAIN final :
                      final[k] = IF k \in DOMAIN callSite THEN callSite[k] ELSE defaults[k]
                /\ (~attributesDefaults.given /\ ~call[c].attributes.given) =>
                      final = EmptyMap

\* one call overrides a default and inherits the other, a second one gives no
\* attributes
C17_Witness ==
    \E c, b \in Calls :
        /\ attributesDefaults = [given |-> TRUE, value |-> [source |-> "a", version |-> "a"]]
        /\ call[c].attributes = [given |-> TRUE, value |-> [version |-> "b"]]
        /\ call[c].calls = 2
        /\ call[c].finalAttributes = [source |-> "a", version |-> "b"]
        /\ call[b].attributes = NotGiven /\ call[b].calls >= 1

(* ------------------------------ backoff -------------------------------- *)

\* C16: for every attempt index and every configuration with non-negative
\* initialDelayMs and maxDelayMs, the delay calculateRetryDelay returns is a number
\* that is at most maxDelayMs + initialDelayMs.
C16_DelayBound ==
    delayResult # NoDelay =>
        /\ delayResult.kind = "finite"
        /\ delayResult.v <= delayArgs.maxDelayMs + delayArgs.initialDelayMs

(* ----------------------------- lifecycle ------------------------------- *)

\* this step makes lifecycle call i, a call of op
Called(i, op) == life[i].op = "none" /\ life'[i].op = op

\* the start() calls that found the consumer not started
EffectiveStarts == {i \in LifecycleCalls : life[i].op = "start" /\ ~life[i].was}

\* C18: start() on a consumer that is already started is a no-op: it leaves
\* isStarted, the subscription's listeners and the stores as they are; and a
\* started consumer on which stop() was never called has exactly one 'message'
\* and one 'error' listener attached, however often start() was called, so that
\* a delivery runs one pipeline.
C18_RepeatedStartIsNoOp ==
    /\ [][\A i \in LifecycleCalls :
            (Called(i, "start") /\ isStarted)
                => UNCHANGED <<isStarted, subscription, storeCloseCalls>>]_vars
    /\ []((isStarted /\ \A i \in LifecycleCalls : life[i].op # "stop")
            => \A e \in SubscriptionEvents : subscription.listeners[e] = 1)

\* start() was called on a started consumer, and one listener of each event is attached
C18_Witness ==
    /\ \E i \in LifecycleCalls : life[i].op = "start" /\ life[i].was
    /\ \A i \in LifecycleCalls : life[i].op # "stop"
    /\ \A e \in SubscriptionEvents : subscription.listeners[e] = 1

\* C19: stop() on a consumer that is not started (as after a stop() that has
\* completed, with no start() since) is a no-op: it resolves without calling
\* subscription.close() or the store's close(); and subscription.close() and the
\* store's close() are each called at most once per start() that started the
\* consumer.
C19_RepeatedStopIsNoOp ==
    /\ [][\A i \in LifecycleCalls :
            (Called(i, "stop") /\ ~isStarted)
                => /\ UNCHANGED <<isStarted, subscription, storeCloseCalls>>
                   /\ life'[i].pc = "resolved"]_vars
    /\ [](/\ subscription.closeCalls <= Cardinality(EffectiveStarts)
          /\ storeCloseCalls.injected + storeCloseCalls.created
                <= Cardinality(EffectiveStarts))

\* a stop() closed the subscription and the store and resolved; stop() was then
\* called again with no start() in between, and each was closed once
C19_Witness ==
    /\ \E i, j \in LifecycleCalls :
          /\ i < j
          /\ life[i].op = "stop" /\ life[i].was /\ life[i].pc = "resolved"
          /\ life[j].op = "stop" /\ i \in life[j].settled
          /\ \A k \in LifecycleCalls : (i < k /\ k < j) => life[k].op # "start"
    /\ Cardinality(EffectiveStarts) = 1
    /\ subscription.closeCalls = 1
    /\ storeCloseCalls.injected + storeCloseCalls.created = 1

\* C20: a consumer constructed with an injected idempotencyStore never calls
\* close() on that store, whatever start() and stop() calls are made.
C20_InjectedStoreIsNeverClosed ==
    options.idempotencyStore = "injected" => storeCloseCalls.injected = 0

\* C21: whenever a stop() call has resolved, subscription.close() has been called,
\* and so has close() of a store the consumer created itself (the Redis-backed
\* one or the in-memory fallback); also for a stop() on a consumer never started.
C21_ResolvedStopHasClosed ==
    \A i \in LifecycleCalls :
        (life[i].op = "stop" /\ life[i].pc = "resolved")
            => /\ subscription.closeCalls >= 1
               /\ SelectStore(options) \in {"redis", "memory"}
                     => storeCloseCalls.created >= 1

(* ---------------------------- Redis store ------------------------------ *)

\* this step makes call c on the Redis store, a call of op
StoreCalled(c, op) == storeCall[c].op = "none" /\ storeCall'[c].op = op

\* C22: close() of the Redis store calls quit() on the connection exactly when
\* the store created the connection itself (no options.client); on a connection
\* supplied through options.client quit() is never called, whatever has(), set()
\* and close() calls are made.
C22_QuitOnlyOwnConnection ==
    /\ [][\A c \in StoreCalls :
            StoreCalled(c, "close")
                => IF redisOptions.client = "undefined"
                   THEN connections' = [connections EXCEPT !["created"].quitCalls = @ + 1]
                   ELSE connections' = connections]_vars
    /\ [](connections["client"].quitCalls = 0)

\* a store on a supplied connection served has() and set() and was closed, and
\* quit() was called on no connection
C22_Witness ==
    /\ redisOptions.client = "ioredis"
    /\ \E a, b, c \in StoreCalls :
          /\ storeCall[a].op = "has" /\ storeCall[a].pc = "resolved"
          /\ storeCall[b].op = "set" /\ storeCall[b].pc = "resolved"
          /\ storeCall[c].op = "close" /\ storeCall[c].pc = "resolved"
    /\ \A x \in Connections : connections[x].quitCalls = 0

\* C23 (Redis store): close() may be called any number of times: no call is
\* rejected, and quit() is called on the owned connection once, not once per call.
C23_CloseIsIdempotent ==
    /\ \A c \in StoreCalls : storeCall[c].op = "close" => storeCall[c].pc # "rejected"
    /\ \A x \in Connections : connections[x].quitCalls <= 1

\* C26: has() and set() of the Redis store never reject; when the cache call
\* fails, has() resolves with false and set() resolves.
C26_RedisStoreFailsOpen ==
    \A c \in StoreCalls :
        /\ storeCall[c].op \in {"has", "set"} => storeCall[c].pc # "rejected"
        /\ (storeCall[c].op = "has" /\ storeCall[c].failed)
              => (storeCall[c].pc = "resolved" /\ ~storeCall[c].result)
        /\ (storeCall[c].op = "set" /\ storeCall[c].failed)
              => storeCall[c].pc = "resolved"

\* the cache failed a has() for a key it holds and a set(): both calls resolved,
\* has() with false
C26_Witness ==
    \E a, b \in StoreCalls :
        /\ storeCall[a].op = "has" /\ storeCall[a].failed /\ storeCall[a].pc = "resolved"
        /\ storeCall[a].key \in DOMAIN cache /\ ~storeCall[a].result
        /\ storeCall[b].op = "set" /\ storeCall[b].failed /\ storeCall[b].pc = "resolved"

(* --------------------------- in-memory store --------------------------- *)

\* the lifetime of a record set with ttl: the ttl, or 6 hours when it is omitted
Lifetime(ttl) == IF ttl.given THEN ttl.value ELSE DefaultTtlMs

\* C24: for the in-memory store, after set(k, t) at time T with no later set(k)
\* and no close(), has(k) returns true at every time before T + t and false at
\* every time after T + t; with ttl omitted t is 6 hours.
C24_TtlExpiry ==
    lastHas.key \in DOMAIN lastSet
        => LET w == lastSet[lastHas.key]
               end == w.at + Lifetime(w.ttl)
           IN  \A s \in Stores :
                  /\ lastHas.at < end => lastHas.results[s]
                  /\ lastHas.at > end => ~lastHas.results[s]

\* a key set with ttl omitted was looked up more than 6 hours later, in the store
\* that is never swept, and has() returned false
C24_Witness ==
    /\ lastHas.key \in DOMAIN lastSet
    /\ ~lastSet[lastHas.key].ttl.given
    /\ lastHas.at > lastSet[lastHas.key].at + DefaultTtlMs
    /\ ~lastHas.results[2]

\* C25: has() returns the same value whether or not the sweep runs, and whenever
\* it runs: the store that is swept and the one that is not give the same answer
\* to every has(); an entry that has not expired is in the swept store as it is
\* in the other, with the same expiry.
C25_SweepIsInvisible ==
    /\ lastHas.results[1] = lastHas.results[2]
    /\ \A k \in DOMAIN memory[2].store :
          now <= memory[2].store[k]
              => /\ k \in DOMAIN memory[1].store
                 /\ memory[1].store[k] = memory[2].store[k]

\* the sweep has removed an expired entry that the other store still holds, and
\* a has() of an unexpired key then returned true from both
C25_Witness ==
    /\ \E k \in DOMAIN memory[2].store : k \notin DOMAIN memory[1].store
    /\ lastHas.key \in DOMAIN memory[1].store
    /\ lastHas.results[1] /\ lastHas.results[2]

(* ------------------------ the idempotency gate ------------------------- *)

\* C27: with idempotencyEnabled false the pipeline calls neither has() nor
\* set(), whether or not an idempotencyStore or redis option was given, and every
\* delivery, a repeated one too, reaches the handling step: onMessageStart, then
\* the handler, or ack() when none is registered.
C27_DisabledNeverTouchesStore ==
    ~options.idempotencyEnabled =>
        \A d \in Deliveries :
            delivery[d].pc # "idle" =>
                /\ ~Has(delivery[d], "has")
                /\ ~Has(delivery[d], "set")
                /\ Has(delivery[d], "onMessageStart")
                /\ IF messageHandler THEN Has(delivery[d], "handler")
                   ELSE Has(delivery[d], "ack")

\* idempotency is disabled while a store was injected that holds a record of the
\* message, and a handler is registered: the message was delivered twice, and
\* both deliveries reached the handler
C27_Witness ==
    /\ ~options.idempotencyEnabled /\ options.idempotencyStore = "injected"
    /\ messageHandler /\ store = {"m1"}
    /\ delivery[1].msg = "m1" /\ delivery[2].msg = "m1"
    /\ Has(delivery[1], "handler") /\ Has(delivery[2], "handler")

(* -------------------------- idempotencyTtlMs --------------------------- *)

\* C28: with idempotencyTtlMs configured, a key the pipeline wrote at time T is
\* treated as a duplicate until T + idempotencyTtlMs and as absent afterwards.
C28_RecordsLiveForConfiguredTtl ==
    [][\A k \in Keys :
          (idempotencyTtlMs.given /\ lastHas'.key = k /\ k \in DOMAIN lastSet)
              => LET end == lastSet[k].at + idempotencyTtlMs.value
                 IN  /\ now < end => lastHas'.results[1]
                     /\ now > end => ~lastHas'.results[1]]_vars

(* ----------------------- the 'error' listener -------------------------- *)

\* C29: the listener registered with on('error') is called for errors of the
\* subscription only: no delivery's pipeline calls it.
C29_ErrorListenerOnlyForTransport ==
    \A d \in Deliveries : ~Has(delivery[d], "errorHandler")

(* ------------------------- no 'message' handler ------------------------ *)

\* C30: when a delivery reaches the handling step and no 'message' handler is
\* registered, the pipeline calls ack() once and then fires onMessageAck; it
\* calls nack() for no such delivery and fires neither onMessageSuccess nor
\* onMessageError.
C30_UnhandledIsAcked ==
    \A d \in Deliveries :
        (Has(delivery[d], "onMessageStart") /\ ~Has(delivery[d], "handler"))
            => /\ Done(d)
               /\ Count(delivery[d], "ack") = 1
               /\ Before(delivery[d], "ack", "onMessageAck")
               /\ ~Has(delivery[d], "nack")
               /\ ~Has(delivery[d], "onMessageSuccess")
               /\ ~Has(delivery[d], "onMessageError")

\* a delivery that was not a duplicate wrote its record, found no handler and
\* was acknowledged
C30_Witness ==
    \E d \in Deliveries :
        /\ Has(delivery[d], "set") /\ Has(delivery[d], "onMessageStart")
        /\ ~Has(delivery[d], "handler")
        /\ Done(d) /\ Has(delivery[d], "ack")

(* --------------------------- payload parsing --------------------------- *)

\* the payload of message m is not JSON
NotJSON(m) == m \in Messages /\ ~IsJSON(RawData(m))

\* C31: a delivery whose payload is not JSON is handed on with the raw bytes
\* decoded as a string, and no error comes of the parse failure: given the same
\* answers of the store and of the handler, its pipeline takes the same steps
\* as that of a delivery whose payload parses, up to the payload itself.
C31_ParseFailureIsNotFatal ==
    /\ \A d \in Deliveries :
          NotJSON(delivery[d].msg) =>
              /\ delivery[d].data = [type |-> "string", text |-> RawData(delivery[d].msg)]
              /\ Has(delivery[d], "handler") => delivery[d].arg = delivery[d].data
              /\ delivery[d].err \in {"none", "handlerError", "selectorError"}
    /\ \A d, e \in Deliveries :
          (/\ Done(d) /\ Done(e)
           /\ NotJSON(delivery[d].msg) /\ ~NotJSON(delivery[e].msg)
           /\ Inputs(delivery[d]) = Inputs(delivery[e]))
              => /\ delivery[d].log = delivery[e].log
                 /\ delivery[d].err = delivery[e].err

\* a payload that is not JSON went through the check and the write to the
\* handler, which got the raw string and returned; so did one that parses
C31_Witness ==
    \E d, e \in Deliveries :
        /\ Done(d) /\ Done(e)
        /\ NotJSON(delivery[d].msg) /\ ~NotJSON(delivery[e].msg)
        /\ Inputs(delivery[d]) = Inputs(delivery[e])
        /\ Has(delivery[d], "set") /\ Has(delivery[d], "handler.returned")
        /\ delivery[d].arg = [type |-> "string", text |-> "not json"]
        /\ ~Has(delivery[d], "nack")

(* --------------------------- check, execute, mark --------------------------- *)

\* C32: the flow of a delivery is check, execute, mark: the store's set() for
\* the key is called only after the handler was invoked and has returned.
C32_MarkAfterExecute ==
    \A d \in Deliveries :
        Has(delivery[d], "set") => Before(delivery[d], "handler.returned", "set")

(* --------------------------- order of the steps --------------------------- *)

\* the steps of the pipeline that the log records, and their place in the order
StepRank ==
    [s \in {"onMessageReceived", "has", "onIdempotencyCheck", "set",
            "onMessageStart", "handler", "onMessageSuccess", "onMessageError",
            "nack", "onMessageNack"} |->
        CASE s = "onMessageReceived"  -> 1
          [] s = "has"                -> 2
          [] s = "onIdempotencyCheck" -> 3
          [] s = "set"                -> 4
          [] s = "onMessageStart"     -> 5
          [] s = "handler"            -> 6
          [] s = "onMessageSuccess"   -> 7
          [] s = "onMessageError"     -> 7
          [] s = "nack"               -> 8
          [] s = "onMessageNack"      -> 9]

\* the steps of log r occur once each and in the order of their ranks
InStepOrder(r) ==
    \A i, j \in DOMAIN r.log :
        (i < j /\ r.log[i] \in DOMAIN StepRank /\ r.log[j] \in DOMAIN StepRank)
            => StepRank[r.log[i]] < StepRank[r.log[j]]

ExponentialDelay(a) ==
    MathMin(a.maxDelayMs, Times(a.initialDelayMs, Power(a.factor, a.attempt)))

\* C34: the delay before a retry is the floor of the exponential part
\* min(maxDelayMs, initialDelayMs * factor ^ attempt) plus a jitter j with
\* 0 <= j < initialDelayMs: it is a number not below the exponential part and
\* less than initialDelayMs above it, and the exponential part is at most
\* maxDelayMs and, for a factor of at least 1, does not decrease with the attempt.
C34_DelayFormula ==
    delayResult # NoDelay =>
        LET base == ExponentialDelay(delayArgs)
            next == ExponentialDelay([delayArgs EXCEPT !.attempt = @ + 1])
        IN  /\ base.kind = "finite" /\ delayResult.kind = "finite"
            /\ base.v <= delayResult.v
            /\ \/ delayResult.v < base.v + delayArgs.initialDelayMs
               \/ delayArgs.initialDelayMs = 0 /\ delayResult.v = base.v
            /\ base.v <= delayArgs.maxDelayMs
            /\ delayArgs.factor >= 1 => (next.kind = "finite" /\ base.v <= next.v)

(* --------------------------- a throwing key selector --------------------------- *)

\* C35: a delivery whose idempotencyKeySelector throws consults no store and
\* invokes no handler; it is not treated as a store error that processing
\* continues after: the message is nacked, after onMessageError and before
\* onMessageNack.
C35_SelectorErrorIsNacked ==
    \A d \in Deliveries :
        (Done(d) /\ delivery[d].err = "selectorError") =>
            LET r == delivery[d] IN
            /\ ~Has(r, "has") /\ ~Has(r, "set") /\ ~Has(r, "handler")
            /\ ~Has(r, "logger.error") /\ ~Has(r, "onMessageStart")
            /\ ~Has(r, "ack")
            /\ Before(r, "onMessageError", "nack")
            /\ Before(r, "nack", "onMessageNack")

(* --------------------------- termination of publish() --------------------------- *)

\* the passes of the loop that call c has finished: the failed and the successful
Attempts(c) ==
    Cardinality(Entries(c, "onPublishError"))
        + Cardinality(Entries(c, "publishMessage.resolved"))

\* the backoff waits of call c that have ended
Waits(c) == Cardinality(Entries(c, "sleep"))

\* C36: when every transport call returns and every backoff wait ends, every
\* publish() call made resolves or rejects; it has made at most maxAttempts
\* attempts and waited at most maxAttempts - 1 times (never, when no attempt
\* is allowed); a wait is always followed by another attempt, so none follows
\* the last failed one.
C36_PublishTerminates ==
    /\ \A c \in Calls : (call[c].pc # "idle") ~> Settled(c)
    /\ [](\A c \in Calls :
            /\ Attempts(c) <= maxAttempts
            /\ Waits(c) <= (IF maxAttempts >= 1 THEN maxAttempts - 1 ELSE 0)
            /\ call[c].pc = "sleep" => Attempts(c) < maxAttempts
            /\ call[c].pc = "rejected" =>
                  Waits(c) = (IF Attempts(c) >= 1 THEN Attempts(c) - 1 ELSE 0))

\* a call rejected after five failed attempts and four waits, another resolved
\* at its second attempt
C36_Witness ==
    \E c, b \in Calls :
        /\ call[c].pc = "rejected" /\ Attempts(c) = 5 /\ Waits(c) = 4
        /\ call[b].pc = "resolved" /\ Attempts(b) = 2 /\ Waits(b) = 1

(* --------------------------- concurrent publish() calls --------------------------- *)

\* the errors in the log of call c: the second argument of onPublishError,
\* onPublishRetry and onPublishFailure
ErrorsSeen(c) ==
    {call[c].log[i][3] : i \in Entries(c, "onPublishError")
                            \cup Entries(c, "onPublishRetry")
                            \cup Entries(c, "onPublishFailure")}

\* C37: publish() calls in flight at the same time keep their retry state
\* apart: each counts its own attempts, up to maxAttempts of them whatever the
\* other call does, every error a call records or hands to its hooks was
\* raised by one of its own attempts, a call that rejects rejects with the
\* error of its own last attempt, and two calls with the same payload to
\* which the transport answers the same settle alike however they interleave.
C37_CallsAreIndependent ==
    /\ \A c \in Calls :
          /\ Attempts(c) <= maxAttempts
          /\ call[c].attempt <= Attempts(c)
          /\ call[c].lastError # Undefined =>
                /\ call[c].lastError.call = c
                /\ call[c].lastError.n = Cardinality(Entries(c, "onPublishError"))
          /\ \A e \in ErrorsSeen(c) : e # Undefined => e.call = c
          /\ (call[c].pc = "rejected" /\ maxAttempts >= 1) =>
                /\ call[c].result.call = c
                /\ call[c].result.n = maxAttempts
                /\ Attempts(c) = maxAttempts
          /\ call[c].pc = "resolved" => call[c].result.call = c
    /\ \A c, b \in Calls : SameCall(c, b) => Settlement(call[c]) = Settlement(call[b])

\* the second call was made after the first and has rejected after its two
\* attempts while the first, one attempt failed, still waits for the transport
\* to answer its second
C37_Witness ==
    /\ maxAttempts = 2
    /\ call[1].pc = "transport" /\ call[1].attempt = 1
    /\ call[1].lastError = ErrorOf("transportError", 1, 1)
    /\ call[2].pc = "rejected" /\ call[2].calls = 2
    /\ call[2].result = ErrorOf("transportError", 2, 2)

(* --------------------------- listeners over restarts --------------------------- *)

\* C38: over any sequence of start() and stop() calls, start, stop, start
\* included, the subscription has at most one 'message' listener and at most
\* one 'error' listener attached.
C38_AtMostOneListener ==
    \A e \in SubscriptionEvents : subscription.listeners[e] <= 1

(* --------------------------- stop() after a failed close --------------------------- *)

\* stop() call i found the consumer started and rejected because
\* subscription.close() did: no close() of a store was ever called
CloseRejected(i) ==
    /\ life[i].op = "stop" /\ life[i].was /\ life[i].pc = "rejected"
    /\ storeCloseCalls = NoStoreCloseCalls

\* C39: after a stop() that rejected because subscription.close() rejected, a
\* later stop(), with no start() in between, calls subscription.close() again.
C39_StopIsRetryable ==
    \A i, j \in LifecycleCalls :
        (/\ CloseRejected(i)
         /\ i < j /\ life[j].op = "stop" /\ i \in life[j].settled
         /\ \A k \in LifecycleCalls : (i < k /\ k < j) => life[k].op # "start")
            => life[j].was

(* --------------------------- degenerate retry options --------------------------- *)

\* C40: whatever the retry configuration, maxAttempts of zero included, a
\* publish() call with a payload that serializes makes at least one transport
\* call before it settles (the ordering key selector permitting), and a call
\* that rejects rejects with an error one of its own attempts raised, never
\* with undefined.
C40_AtLeastOneAttempt ==
    \A c \in Calls :
        Settled(c) =>
            /\ (call[c].data = "json" /\ orderingKeySelector # "throwing")
                  => call[c].calls >= 1
            /\ call[c].pc = "rejected" =>
                  /\ call[c].result # Undefined
                  /\ call[c].result.call = c
                  /\ call[c].result.n \in 1..Attempts(c)

====
